---- MODULE Spec2Model ----
(***************************************************************************)
(* A model of beanbeaver's receipt matching core: the ledger writer        *)
(* (ledger_reader/writer.py, domain/match.py), the receipt matcher         *)
(* (receipt/matcher.py), the receipt draft serializer and its re-parser    *)
(* (receipt/formatter.py, runtime/receipt_storage.py) and the interactive  *)
(* matching session (application/receipts/match.py).                       *)
(*                                                                         *)
(* Texts are TLA+ strings and files are lists of lines, so that the string *)
(* operations of the code (splitlines, strip, startswith, substring        *)
(* search, regular expressions) are computed on the characters.            *)
(***************************************************************************)
EXTENDS Integers, Sequences, FiniteSets, TLC

VARIABLES
    statement,      \* text of the statement file (statement_path)
    enriched,       \* enriched_path -> [exists, text]: the _enriched/ files
    ledgerBroken,   \* the main ledger has errors of its own (environment)
    last,           \* the last call of apply_receipt_match: inputs, snapshots, outcome
    mt,             \* matcher: one receipt/candidate pair and the result of _try_match
    rt,             \* draft round trip: a Receipt, its serialized text, the re-parsed Receipt
    sess,           \* the matching session of cmd_match
    cat,            \* categorizer: rule layers, a description, its matches and category
    ocr,            \* item extraction: the OCR lines of a receipt and the parsed result
    grp,            \* grouper: the detections of a page and the lines made of them
    acct,           \* ledger reader: the open/close directives of a ledger and a query
    svc,            \* receipt scan: the request to the OCR service and its outcome
    dates,          \* date extraction: a transcript and the date found in it
    enr             \* enrichment: a receipt, a card transaction and what is written for them

vars == <<statement, enriched, ledgerBroken, last, mt, rt, sess, cat, ocr, grp,
          acct, svc, dates, enr>>

----------------------------------------------------------------------------
(* Python string operations, on TLA+ strings.                              *)

Ch(s, i) == SubSeq(s, i, i)

IsSpace(c) == c \in {" ", "\t", "\n", "\r"}

IsDigit(c) == c \in {"0", "1", "2", "3", "4", "5", "6", "7", "8", "9"}

RECURSIVE LStrip(_)
LStrip(s) ==
    IF s = "" THEN ""
    ELSE IF IsSpace(Head(s)) THEN LStrip(Tail(s)) ELSE s

RECURSIVE RStrip(_)
RStrip(s) ==
    IF s = "" THEN ""
    ELSE IF IsSpace(Ch(s, Len(s))) THEN RStrip(SubSeq(s, 1, Len(s) - 1)) ELSE s

Strip(s) == RStrip(LStrip(s))

StartsWith(s, p) == Len(s) >= Len(p) /\ SubSeq(s, 1, Len(p)) = p

\* Index of the first occurrence of p in s, 0 when there is none (str.find + 1).
Find(s, p) ==
    LET hits == {i \in 1..(Len(s) - Len(p) + 1) : SubSeq(s, i, i + Len(p) - 1) = p}
    IN IF hits = {} THEN 0 ELSE CHOOSE i \in hits : \A j \in hits : i <= j

Contains(s, p) == Find(s, p) # 0

\* str.splitlines(keepends=True), for texts whose only line boundary is "\n".
RECURSIVE SplitLinesKeep(_)
SplitLinesKeep(s) ==
    IF s = "" THEN <<>>
    ELSE LET i == Find(s, "\n")
         IN IF i = 0 THEN <<s>>
            ELSE <<SubSeq(s, 1, i)>> \o SplitLinesKeep(SubSeq(s, i + 1, Len(s)))

\* str.split("\n")
RECURSIVE SplitNL(_)
SplitNL(s) ==
    LET i == Find(s, "\n")
    IN IF i = 0 THEN <<s>>
       ELSE <<SubSeq(s, 1, i - 1)>> \o SplitNL(SubSeq(s, i + 1, Len(s)))

\* "".join(parts)
RECURSIVE Join(_)
Join(parts) == IF parts = <<>> THEN "" ELSE Head(parts) \o Join(Tail(parts))

\* "\n".join(parts)
RECURSIVE JoinNL(_)
JoinNL(parts) ==
    IF parts = <<>> THEN ""
    ELSE IF Len(parts) = 1 THEN parts[1]
    ELSE parts[1] \o "\n" \o JoinNL(Tail(parts))

----------------------------------------------------------------------------
(* A text file is held as the list of its lines, each with its line end:   *)
(* what content.splitlines(keepends=True) returns for the file's text.     *)
(* Only the last line of a file can lack its "\n".                          *)

\* "".join(parts) written to a file and read back with
\* splitlines(keepends=True): a part without line end runs into the next one.
RECURSIVE WrittenLines(_)
WrittenLines(parts) ==
    IF Len(parts) <= 1 THEN parts
    ELSE IF Ch(parts[1], Len(parts[1])) = "\n"
         THEN <<parts[1]>> \o WrittenLines(Tail(parts))
    ELSE WrittenLines(<<parts[1] \o parts[2]>> \o SubSeq(parts, 3, Len(parts)))

\* `needle in content`, for a needle without line end.
TextContains(lines, needle) == \E i \in 1..Len(lines) : Contains(lines[i], needle)

----------------------------------------------------------------------------
(* domain/match.py: the transaction block helpers.  Python indexes lines   *)
(* from 0; here lines[i] is Python's lines[i - 1], so `start` is           *)
(* start_idx + 1 and the returned end is the index of the first line after *)
(* the block (Python's exclusive end, plus one).                           *)

RECURSIVE FindEndFrom(_, _)
FindEndFrom(lines, idx) ==
    IF idx > Len(lines) THEN idx
    ELSE IF Strip(lines[idx]) = "" THEN idx + 1
    ELSE IF StartsWith(lines[idx], " ") \/ StartsWith(lines[idx], "\t")
         THEN FindEndFrom(lines, idx + 1)
    ELSE idx

\* A find_transaction_end that ends a block at a blank line only.
RECURSIVE FindEndBlankOnly(_, _)
FindEndBlankOnly(lines, idx) ==
    IF idx > Len(lines) THEN idx
    ELSE IF Strip(lines[idx]) = "" THEN idx + 1
    ELSE FindEndBlankOnly(lines, idx + 1)

find_transaction_end_blank_only(lines, start) == FindEndBlankOnly(lines, start + 1)

find_transaction_end(lines, start) == FindEndFrom(lines, start + 1)

CommentLine(line) ==
    IF Strip(line) = "" THEN line
    ELSE IF StartsWith(LStrip(line), ";") THEN line
    ELSE "; " \o line

comment_block(lines) == [i \in 1..Len(lines) |-> CommentLine(lines[i])]

----------------------------------------------------------------------------
(* ledger_reader/writer.py                                                 *)

\* date.today().isoformat(): the day of the run.
Today == "2025-02-01"

\* ^\d{4}-\d{2}-\d{2}
IsIsoDatePrefix(s) ==
    /\ Len(s) >= 10
    /\ \A i \in {1, 2, 3, 4, 6, 7, 9, 10} : IsDigit(Ch(s, i))
    /\ Ch(s, 5) = "-"
    /\ Ch(s, 8) = "-"

\* A start-line check that accepts every line.
TXN_START_RE_any_line(s) == TRUE

\* _TXN_START_RE.match(s), _TXN_START_RE = ^\d{4}-\d{2}-\d{2}\s+\*
TXN_START_RE(s) ==
    /\ IsIsoDatePrefix(s)
    /\ LET r == SubSeq(s, 11, Len(s))
       IN r # "" /\ IsSpace(Head(r)) /\ StartsWith(LStrip(r), "*")

IncludePrefix(include_rel_path) == "include \"" \o include_rel_path \o "\""

StampLine(receipt_name) ==
    "; bb-match replaced from receipt " \o receipt_name \o " on " \o Today \o "\n"

IncludeLine(include_rel_path, receipt_name) ==
    IncludePrefix(include_rel_path) \o "  ; bb-match: " \o receipt_name \o "\n"

\* The replacement of one transaction block (writer.py lines 70-78).
Replacement(original_block, include_rel_path, receipt_name) ==
    LET head == <<StampLine(receipt_name)>> \o comment_block(original_block)
        sep  == IF Strip(head[Len(head)]) # "" THEN <<"\n">> ELSE <<>>
    IN head \o sep \o <<IncludeLine(include_rel_path, receipt_name), "\n">>

\* LedgerWriter._replace_transaction_with_include on the lines of the
\* statement file: the status ("ValueError" when it raises) and the lines the
\* file holds afterwards.
replace_transaction_with_include(lines, line_number, include_rel_path, receipt_name) ==
    LET start == line_number
        raise == [status |-> "ValueError", lines |-> lines]
    IN IF TextContains(lines, IncludePrefix(include_rel_path))
       THEN [status |-> "already_applied", lines |-> lines]
       ELSE IF line_number - 1 < 0 \/ line_number - 1 >= Len(lines) THEN raise
       ELSE IF ~TXN_START_RE(LStrip(lines[start])) THEN raise
       ELSE LET end == find_transaction_end(lines, start)
                original_block == SubSeq(lines, start, end - 1)
            IN IF original_block = <<>> THEN raise
               ELSE [status |-> "applied",
                     lines |-> WrittenLines(
                                  SubSeq(lines, 1, start - 1)
                                  \o Replacement(original_block, include_rel_path, receipt_name)
                                  \o SubSeq(lines, end, Len(lines)))]

NoFile == [exists |-> FALSE, text |-> ""]
File(text) == [exists |-> TRUE, text |-> text]

\* The enriched files of the model, by their path relative to the statement's
\* directory (include_rel_path; enriched_path is that path below the directory).
Paths ==
    { "_enriched/r1.beancount",
      "_enriched/2025-01-10_aldi_20_00-enriched.beancount",
      "_enriched/2025-01-10_costco_50_00-enriched.beancount",
      "_enriched/2025-01-10_costco_50_00_1-enriched.beancount",
      "_enriched/2025-01-10_shell_30_00-enriched.beancount",
      "_enriched/2025-01-10_shell_30_00_1-enriched.beancount" }

\* Enriched texts the loader rejects.
BadContents == {"BAD-ENRICHED\n"}

\* A line of the statement that is an include directive for p: at column 0,
\* not inside a comment.
ActiveInclude(lines, p) ==
    \E i \in 1..Len(lines) : StartsWith(lines[i], IncludePrefix(p))

\* LedgerWriter.validate_ledger: TRUE when load_file reports errors.  beancount's
\* loader is outside the repository; it is deterministic in the files it reads:
\* here it reports errors when the main ledger is broken or an included
\* enriched file does not parse.
validate_ledger(broken, lines, files) ==
    \/ broken
    \/ \E p \in Paths : /\ files[p].exists
                        /\ files[p].text \in BadContents
                        /\ ActiveInclude(lines, p)

\* A restore that leaves behind an enriched file the call created.
RollbackKeepsNewEnriched(original_statement, enriched_existed, original_enriched, cur_enriched) ==
    [statement |-> original_statement,
     enriched  |-> IF enriched_existed THEN File(original_enriched) ELSE cur_enriched]

\* The except branch of apply_receipt_match (writer.py lines 119-125): the
\* files after the restore, given the snapshots and the enriched file as it is.
Rollback(original_statement, enriched_existed, original_enriched, cur_enriched) ==
    [statement |-> original_statement,
     enriched  |-> IF enriched_existed THEN File(original_enriched)
                   ELSE IF cur_enriched.exists THEN NoFile
                   ELSE cur_enriched]

\* The steps at which the file system may raise OSError.
Faults == {"none", "write_enriched", "write_statement"}

\* LedgerWriter.apply_receipt_match as a function of the files it reads: the
\* status ("raised" when the call propagates an exception, `error` says which),
\* the two files when the call returns, and whether the statement file had
\* been rewritten before the call failed or returned (replaced).
apply_receipt_match(stmt, files, broken, line_number, p, receipt_name, enriched_content, fault) ==
    LET original_statement == stmt
        enriched_existed == files[p].exists
        original_enriched == files[p].text
        failed(error, replaced, cur) ==
            LET r == Rollback(original_statement, enriched_existed, original_enriched, cur)
            IN [status |-> "raised", error |-> error, statement |-> r.statement,
                enriched |-> r.enriched, replaced |-> replaced]
    IN IF fault = "write_enriched" THEN failed("OSError", FALSE, files[p])
       ELSE
       LET written == File(enriched_content)
           rep == replace_transaction_with_include(stmt, line_number, p, receipt_name)
       IN IF rep.status = "ValueError" THEN failed("ValueError", FALSE, written)
          ELSE IF rep.status = "applied" /\ fault = "write_statement"
               THEN failed("OSError", FALSE, written)
          ELSE IF validate_ledger(broken, rep.lines, [files EXCEPT ![p] = written])
               THEN failed("RuntimeError", rep.status = "applied", written)
          ELSE [status |-> rep.status, error |-> "", statement |-> rep.lines,
                enriched |-> written, replaced |-> rep.status = "applied"]

----------------------------------------------------------------------------
(* The ledger writer as a state machine: calls of apply_receipt_match on   *)
(* one statement file, and the main ledger breaking or being repaired.     *)

TxnA == <<"2025-01-01 * \"Groceries\" \"\"\n",
          "  Expenses:Food 10.00 CAD\n",
          "  Liabilities:CardA -10.00 CAD\n">>

TxnHold == <<"2025-01-02 ! \"Hold pending\" \"\"\n",
             "  Expenses:Food 5.00 CAD\n",
             "  Liabilities:CardA -5.00 CAD\n">>

TxnNote == <<"2025-01-03 * \"Cafe\" \"\"\n",
             "  ; card 1234\n",
             "  Expenses:Food 4.00 CAD\n",
             "\n">>

TxnLast == <<"2025-01-05 * \"Bakery\" \"\"\n",
             "\tExpenses:Food 3.00 CAD">>

\* The statement files a run starts from: the three files of
\* test_ledger_writer.py that hold a `*` transaction, and two longer ones (a
\* blank line ending a block, a top-level line ending a block, a comment
\* inside a block, a `!` transaction, a last line without line end).
StatementFiles ==
    { TxnA,
      <<"; include \"_enriched/r1.beancount\"\n">> \o TxnA,
      <<"include \"_enriched/r1.beancount\"\n">> \o TxnA,
      TxnHold \o <<"\n">> \o TxnNote \o TxnA,
      <<"option \"operating_currency\" \"CAD\"\n">> \o TxnA \o TxnLast }

\* The enriched path apply_receipt_match is called with, its receipt's file
\* name (path.name of the receipt) and the enriched texts it is called with.
WriterPath == "_enriched/r1.beancount"
WriterReceipt == "r1.beancount"
EnrichedContents == {"NEW-ENRICHED\n", "BAD-ENRICHED\n"}

NoCall ==
    [called |-> FALSE, status |-> "", error |-> "", bad_line |-> FALSE,
     replaced |-> FALSE, pre_statement |-> <<>>, pre_enriched |-> NoFile,
     line_number |-> 0, enriched_content |-> "", valid_target |-> FALSE,
     block |-> <<>>, repeat |-> FALSE, first_valid |-> FALSE,
     first_block |-> <<>>]

InitIdle ==
    /\ mt = [pc |-> "idle"]
    /\ rt = [pc |-> "idle"]
    /\ sess = [pc |-> "idle"]
    /\ cat = [pc |-> "idle"]
    /\ ocr = [pc |-> "idle"]
    /\ grp = [pc |-> "idle"]
    /\ acct = [pc |-> "idle"]
    /\ svc = [pc |-> "idle"]
    /\ dates = [pc |-> "idle"]

InitWriter ==
    /\ statement \in StatementFiles
    /\ \E e \in {NoFile, File("OLD-ENRICHED\n")} :
          /\ ActiveInclude(statement, WriterPath) => e.exists
          /\ enriched = [p \in Paths |-> IF p = WriterPath THEN e ELSE NoFile]
    /\ ledgerBroken \in BOOLEAN
    /\ last = NoCall
    /\ enr = [pc |-> "idle"]
    /\ InitIdle

\* A line number that names no line of the file, or a line that does not
\* start a transaction (a date, then a flag character).
IsTxnStart(line) ==
    /\ IsIsoDatePrefix(line)
    /\ LET r == SubSeq(line, 11, Len(line))
       IN r # "" /\ IsSpace(Head(r)) /\ \E f \in {"*", "!"} : StartsWith(LStrip(r), f)

BadLine(lines, line_number) ==
    \/ line_number < 1
    \/ line_number > Len(lines)
    \/ ~IsTxnStart(lines[line_number])

\* One call of apply_receipt_match, from the snapshots to the return or the
\* propagated exception.  `last` keeps the call: the files before it, its
\* inputs, its outcome, the block at the target line, and whether it repeats
\* the inputs of the call before it (then also what that call was aimed at).
\* valid_target: the call named a transaction start line of a statement file
\* without an active include of the enriched file, and neither an I/O error
\* nor a validation error happened in it.
ApplyReceiptMatch(line_number, enriched_content, fault) ==
    LET p == WriterPath
        r == apply_receipt_match(statement, enriched, ledgerBroken, line_number, p,
                                 WriterReceipt, enriched_content, fault)
        bad == BadLine(statement, line_number)
        repeat == /\ last.called
                  /\ last.line_number = line_number
                  /\ last.enriched_content = enriched_content
    IN /\ statement' = r.statement
       /\ enriched' = [enriched EXCEPT ![p] = r.enriched]
       /\ last' = [called |-> TRUE, status |-> r.status, error |-> r.error,
                   bad_line |-> bad,
                   replaced |-> r.replaced,
                   pre_statement |-> statement, pre_enriched |-> enriched[p],
                   line_number |-> line_number,
                   enriched_content |-> enriched_content,
                   valid_target |-> /\ ~bad
                                    /\ ~ActiveInclude(statement, p)
                                    /\ r.error \notin {"OSError", "RuntimeError"},
                   block |-> IF bad THEN <<>>
                             ELSE SubSeq(statement, line_number,
                                         find_transaction_end(statement, line_number) - 1),
                   repeat |-> repeat,
                   first_valid |-> repeat /\ last.valid_target,
                   first_block |-> IF repeat THEN last.block ELSE <<>>]
       /\ UNCHANGED <<ledgerBroken, mt, rt, sess, cat, ocr, grp, acct, svc, dates, enr>>

\* The main ledger gets broken or repaired between calls (an edit by hand).
ToggleLedger ==
    /\ ledgerBroken' = ~ledgerBroken
    /\ last' = NoCall
    /\ UNCHANGED <<statement, enriched, mt, rt, sess, cat, ocr, grp, acct, svc, dates, enr>>

NextWriter ==
    \/ \E line_number \in 0..(Len(statement) + 1),
          enriched_content \in EnrichedContents, fault \in Faults :
            ApplyReceiptMatch(line_number, enriched_content, fault)
    \/ ToggleLedger

SpecWriter == InitWriter /\ [][NextWriter]_vars

----------------------------------------------------------------------------
(* Claims about the ledger writer, checked under SpecWriter.               *)

Unchanged == statement = last.pre_statement /\ enriched[WriterPath] = last.pre_enriched

\* C1: a call of apply_receipt_match in which ledger validation reports errors,
\* or in which a step after the snapshots raises, propagates the failure and
\* leaves the statement file and the enriched file exactly as they were before
\* the call; an enriched file that did not exist before does not exist after.
\* (A call that returns normally leaves a ledger without validation errors.)
C1_FailureRestoresBothFiles ==
    /\ (last.called /\ last.status = "raised") => Unchanged
    /\ (last.called /\ last.status # "raised") =>
            ~validate_ledger(ledgerBroken, statement, enriched)

\* The rollback test's case: validation failed after both files were written,
\* and the enriched file, new in this call, is gone again.
C1_Witness ==
    /\ last.status = "raised"
    /\ last.error = "RuntimeError"
    /\ last.replaced
    /\ ~last.pre_enriched.exists
    /\ ~enriched[WriterPath].exists

Chomp(line) ==
    IF line # "" /\ Ch(line, Len(line)) = "\n" THEN SubSeq(line, 1, Len(line) - 1) ELSE line

\* The commented-out form of a line of a block.
CommentedCopy(line) ==
    IF Strip(line) = "" \/ StartsWith(LStrip(line), ";") THEN line ELSE "; " \o line

\* The places of `lines` at which a commented-out copy of `block` starts.
BlockCopies(lines, block) ==
    {i \in 1..(Len(lines) - Len(block) + 1) :
        \A k \in 1..Len(block) : Chomp(lines[i + k - 1]) = Chomp(CommentedCopy(block[k]))}

IncludeDirectives(lines, p) == {i \in 1..Len(lines) : StartsWith(lines[i], IncludePrefix(p))}

\* C2: when apply_receipt_match is invoked twice in a row with identical
\* inputs (the line starts a transaction, the statement file does not include
\* the enriched file yet, and neither call meets an I/O or validation error),
\* the second call returns "already_applied", and after it the statement file
\* holds exactly one include directive for the enriched file and exactly one
\* commented-out copy of the original transaction block.
C2_SecondCallAlreadyApplied ==
    (last.repeat /\ last.first_valid /\ last.error \notin {"OSError", "RuntimeError"}) =>
        /\ last.status = "already_applied"
        /\ Cardinality(IncludeDirectives(statement, WriterPath)) = 1
        /\ Cardinality(BlockCopies(statement, last.first_block)) = 1

\* C3: when the target include directive is already present in the statement
\* file, apply_receipt_match returns "already_applied" and writes neither
\* file, also when enriched_content differs from the existing enriched file
\* (stated for calls without an I/O error, on a ledger that is not broken).
C3_AlreadyAppliedWritesNeitherFile ==
    (/\ last.called
     /\ ActiveInclude(last.pre_statement, WriterPath)
     /\ last.error # "OSError"
     /\ ~ledgerBroken)
    => (last.status = "already_applied" /\ Unchanged)

BlockEnd(lines, start) ==
    LET ends == {i \in (start + 1)..Len(lines) :
                    \/ Strip(lines[i]) = ""
                    \/ ~(StartsWith(lines[i], " ") \/ StartsWith(lines[i], "\t"))}
    IN IF ends = {} THEN Len(lines) + 1 ELSE CHOOSE i \in ends : \A j \in ends : i <= j

\* C5: after an "applied" mutation the statement file is the original with
\* only the target block replaced: the lines before the block start and the
\* lines from the block's exclusive end on are unchanged and in the same
\* order, every line of the block is still there, in order, as a comment
\* line, the include directive follows them, and no line is deleted.
C5_OnlyTargetBlockReplaced ==
    last.status = "applied" =>
        LET old == last.pre_statement
            new == statement
            s == last.line_number
            e == BlockEnd(old, s)
            d == Len(new) - Len(old)
        IN /\ d >= 0
           /\ \A i \in 1..(s - 1) : new[i] = old[i]
           /\ \A i \in e..Len(old) : new[i + d] = old[i]
           /\ \A i \in s..(e - 1) :
                 /\ StartsWith(LStrip(new[i + 1]), ";")
                 /\ Chomp(new[i + 1]) = Chomp(CommentedCopy(old[i]))
           /\ \E j \in (e + 1)..(e + d - 1) :
                 StartsWith(new[j], IncludePrefix(WriterPath))

\* A block in the middle of the file, ended by a blank line, was replaced.
C5_Witness ==
    /\ last.status = "applied"
    /\ last.line_number > 1
    /\ BlockEnd(last.pre_statement, last.line_number) <= Len(last.pre_statement)
    /\ Strip(last.pre_statement[BlockEnd(last.pre_statement, last.line_number)]) = ""
    /\ BlockEnd(last.pre_statement, last.line_number) < Len(last.pre_statement)

----------------------------------------------------------------------------
(* receipt/matcher.py.  Money is in cents, tolerances in hundredths of a   *)
(* cent (Decimal arithmetic is exact), scores are fractions <<n, d>> in    *)
(* lowest terms, d > 0 (the code's floats, without their rounding).        *)

Abs(x) == IF x < 0 THEN -x ELSE x
Max(a, b) == IF a >= b THEN a ELSE b
Min(a, b) == IF a <= b THEN a ELSE b

RECURSIVE GCD(_, _)
GCD(a, b) == IF b = 0 THEN a ELSE GCD(b, a % b)

Frac(n, d) == LET g == GCD(Abs(n), d) IN <<n \div g, d \div g>>
FAdd(a, b) == Frac(a[1] * b[2] + b[1] * a[2], a[2] * b[2])
FMul(a, b) == Frac(a[1] * b[1], a[2] * b[2])
FLeq(a, b) == a[1] * b[2] <= b[1] * a[2]
FLt(a, b) == a[1] * b[2] < b[1] * a[2]
Zero == <<0, 1>>
One == <<1, 1>>

LowerLetters == "abcdefghijklmnopqrstuvwxyz"
UpperLetters == "ABCDEFGHIJKLMNOPQRSTUVWXYZ"
IsUpperLetter(c) == c \in {Ch(UpperLetters, i) : i \in 1..Len(UpperLetters)}

LowerToUpper ==
    [c \in {Ch(LowerLetters, i) : i \in 1..Len(LowerLetters)} |->
        Ch(UpperLetters, Find(LowerLetters, c))]

UpperCh(c) == IF c \in DOMAIN LowerToUpper THEN LowerToUpper[c] ELSE c

\* str.upper(), for ASCII text
RECURSIVE Upper(_)
Upper(s) ==
    IF Len(s) <= 1 THEN (IF s = "" THEN "" ELSE UpperCh(s))
    ELSE Upper(SubSeq(s, 1, Len(s) \div 2)) \o Upper(SubSeq(s, Len(s) \div 2 + 1, Len(s)))

AllDigits(s) == s # "" /\ \A i \in 1..Len(s) : IsDigit(Ch(s, i))

\* The first place j <= k + 1 with only white space in s[j..k].
WsRunStart(s, k) ==
    LET starts == {j \in 1..(k + 1) : \A i \in j..k : IsSpace(Ch(s, i))}
    IN CHOOSE j \in starts : \A x \in starts : j <= x

\* re.sub(r"\s+(INC|LLC|LTD|CORP|CO|#\d+|\d+)\.?$", "", s)
StripSuffixNoise(s) ==
    LET spaces == {i \in 1..Len(s) : IsSpace(Ch(s, i))}
    IN IF spaces = {} THEN s
       ELSE LET k == CHOOSE i \in spaces : \A j \in spaces : j <= i
                token == SubSeq(s, k + 1, Len(s))
                word == IF token # "" /\ Ch(token, Len(token)) = "."
                        THEN SubSeq(token, 1, Len(token) - 1) ELSE token
                noise == \/ word \in {"INC", "LLC", "LTD", "CORP", "CO"}
                         \/ AllDigits(word)
                         \/ (StartsWith(word, "#") /\ AllDigits(Tail(word)))
            IN IF noise THEN SubSeq(s, 1, WsRunStart(s, k) - 1) ELSE s

\* Where a match of (,\s*|\s+) or ,?\s* that ends just before place w starts.
SeparatorStart(s, w) ==
    LET j == WsRunStart(s, w - 1)
    IN IF j > 1 /\ Ch(s, j - 1) = "," THEN j - 1 ELSE j

\* re.sub(r",?\s*[A-Z]{2}\s*$", "", s)
StripStateCode(s) ==
    LET e == Len(RStrip(s))
    IN IF e >= 2 /\ IsUpperLetter(Ch(s, e)) /\ IsUpperLetter(Ch(s, e - 1))
       THEN SubSeq(s, 1, SeparatorStart(s, e - 1) - 1)
       ELSE s

\* re.sub(r"(?:,\s*|\s+)[A-Z][A-Za-z]+\s*$", "", s), s in upper case
StripTrailingWord(s) ==
    LET e == Len(RStrip(s))
        starts == {w \in 1..e : \A i \in w..e : IsUpperLetter(Ch(s, i))}
    IN IF starts = {} THEN s
       ELSE LET w == CHOOSE x \in starts : \A y \in starts : x <= y
                b == SeparatorStart(s, w)
            IN IF e - w + 1 >= 2 /\ b < w THEN SubSeq(s, 1, b - 1) ELSE s

\* re.sub(r"[^A-Z0-9]", "", s)
RECURSIVE KeepAlnum(_)
KeepAlnum(s) ==
    IF s = "" THEN ""
    ELSE (IF IsUpperLetter(Head(s)) \/ IsDigit(Head(s)) THEN Head(s) ELSE "")
         \o KeepAlnum(Tail(s))

normalize(s) == KeepAlnum(StripTrailingWord(StripStateCode(StripSuffixNoise(Upper(s)))))

\* set(re.findall(r"[A-Z]{3,}", s.upper()))
Words(s) ==
    LET u == Upper(s)
        letter(i) == i >= 1 /\ i <= Len(u) /\ IsUpperLetter(Ch(u, i))
    IN {SubSeq(u, i, j) : <<i, j>> \in
          {ij \in (1..Len(u)) \X (1..Len(u)) :
              /\ ij[2] - ij[1] + 1 >= 3
              /\ \A k \in ij[1]..ij[2] : letter(k)
              /\ ~letter(ij[1] - 1)
              /\ ~letter(ij[2] + 1)}}

CommonPrefix(r, t) ==
    LET n == Min(Len(r), Len(t))
        same == {k \in 0..n : \A i \in 1..k : Ch(r, i) = Ch(t, i)}
    IN CHOOSE k \in same : \A x \in same : x <= k

\* _merchant_similarity(receipt_merchant, txn_payee)
merchant_similarity(receipt_merchant, txn_payee) ==
    LET r == normalize(receipt_merchant)
        t == normalize(txn_payee)
        min_len == Min(Len(r), Len(t))
        common_prefix == CommonPrefix(r, t)
        r_words == Words(receipt_merchant)
        t_words == Words(txn_payee)
        common_words == r_words \cap t_words
    IN IF r = "" \/ t = "" THEN Zero
       ELSE IF Contains(t, r) \/ Contains(r, t) THEN Frac(9, 10)
       ELSE IF common_prefix >= 4
            THEN FAdd(Frac(1, 2), FMul(Frac(2, 5), Frac(common_prefix, min_len)))
       ELSE IF r_words # {} /\ t_words # {} /\ common_words # {}
            THEN FAdd(Frac(3, 10),
                      FMul(Frac(2, 5),
                           Frac(Cardinality(common_words), Cardinality(r_words \cup t_words))))
       ELSE Zero

\* MatchConfig(): the default configuration
DefaultDateToleranceDays == 3
DefaultAmountToleranceCents == 10
DefaultAmountTolerancePercent == 1

MatchConfig(days, cents, percent) ==
    [date_tolerance_days |-> days, amount_tolerance |-> cents,
     amount_tolerance_percent |-> percent]

NoMatch ==
    [matched |-> FALSE, confidence |-> Zero, date_part |-> Zero,
     amount_part |-> Zero, merchant_score |-> Zero]

\* A date score that falls to 0 at the tolerance itself.
DateScoreZeroAtTolerance(date_diff, config) ==
    IF date_diff = 0 \/ config.date_tolerance_days = 0 THEN Frac(2, 5)
    ELSE FMul(Frac(2, 5),
              Frac(config.date_tolerance_days - date_diff, config.date_tolerance_days))

\* The date score of a candidate inside the window (matcher.py 114-119, 231-236).
DateScore(date_diff, config) ==
    IF date_diff = 0 THEN Frac(2, 5)
    ELSE FMul(Frac(2, 5),
              Frac(config.date_tolerance_days + 1 - date_diff,
                   config.date_tolerance_days + 1))

\* An amount tolerance that adds the fixed and the relative tolerance.
AmountToleranceSum(receipt_total, config) ==
    config.amount_tolerance * 100 + receipt_total * config.amount_tolerance_percent

\* max(config.amount_tolerance, receipt.total * config.amount_tolerance_percent),
\* in hundredths of a cent
AmountTolerance(receipt_total, config) ==
    Max(config.amount_tolerance * 100, receipt_total * config.amount_tolerance_percent)

\* The scoring both directions share, from the date check on: txn_amount is
\* the amount compared with the receipt total.
Score(receipt, txn_date, txn_amount, txn_payee, config) ==
    LET date_diff == Abs(txn_date - receipt.date)
        date_part == IF receipt.date_is_placeholder THEN Zero
                     ELSE DateScore(date_diff, config)
        amount_diff == Abs(txn_amount - receipt.total) * 100
        amount_tolerance == AmountTolerance(receipt.total, config)
        amount_part == IF amount_diff = 0 THEN Frac(2, 5)
                       ELSE FMul(Frac(2, 5),
                                 Frac(amount_tolerance - amount_diff, amount_tolerance))
        merchant_score == merchant_similarity(receipt.merchant, txn_payee)
    IN IF ~receipt.date_is_placeholder /\ date_diff > config.date_tolerance_days
       THEN NoMatch
       ELSE IF amount_diff > amount_tolerance THEN NoMatch
       ELSE IF FLt(merchant_score, Frac(3, 10)) THEN NoMatch
       ELSE [matched |-> TRUE,
             confidence |-> FAdd(FAdd(date_part, amount_part),
                                 FMul(Frac(1, 5), merchant_score)),
             date_part |-> date_part, amount_part |-> amount_part,
             merchant_score |-> merchant_score]

\* _try_match_receipt(txn_date, txn_amount, txn_payee, receipt, receipt_path, config)
try_match_receipt(txn_date, txn_amount, txn_payee, receipt, config) ==
    Score(receipt, txn_date, txn_amount, txn_payee, config)

\* A posting without units has no number.
NoUnits == [has_units |-> FALSE, number |-> 0]
Units(n) == [has_units |-> TRUE, number |-> n]

\* _try_match(receipt, txn, config): the charge is the first posting with a
\* negative number; a transaction without one matches nothing.
try_match(receipt, txn, config) ==
    LET negative == {i \in 1..Len(txn.postings) :
                        txn.postings[i].has_units /\ txn.postings[i].number < 0}
    IN IF ~receipt.date_is_placeholder
          /\ Abs(txn.date - receipt.date) > config.date_tolerance_days THEN NoMatch
       ELSE IF negative = {} THEN NoMatch
       ELSE LET first == CHOOSE i \in negative : \A j \in negative : i <= j
            IN Score(receipt, txn.date, Abs(txn.postings[first].number), txn.payee, config)

----------------------------------------------------------------------------
(* The matcher as a state machine: a receipt, a candidate transaction and  *)
(* a configuration are drawn, then one of the two directions scores them.  *)

\* Days are counted from the first day of the window.
MaxDays == 4

\* (receipt merchant, transaction payee): one name inside the other, a common
\* prefix, a shared word, nothing in common, an empty merchant.
MerchantPairs ==
    { <<"COSTCO", "COSTCO WHOLESALE #123">>,
      <<"Whole Foods Market", "WHOLEFDS MKT 10234">>,
      <<"Sobeys Urban Fresh", "FRESH SOBEYS">>,
      <<"COSTCO", "SHELL C01234 TORONTO, ON">>,
      <<"", "COSTCO WHOLESALE #123">> }

Configs ==
    { MatchConfig(DefaultDateToleranceDays, DefaultAmountToleranceCents,
                  DefaultAmountTolerancePercent),
      MatchConfig(1, 0, 5) }

\* The postings of a transaction whose card charge is `amount`: the charge
\* last, a posting without units before it and a second negative posting
\* after it, no negative posting at all.
PostingShapes(amount) ==
    { <<Units(amount), Units(-amount)>>,
      <<NoUnits, Units(-amount), Units(-1)>>,
      <<Units(amount)>> }

InitMatcher ==
    /\ \E pair \in MerchantPairs, receipt_date \in {0, MaxDays}, txn_date \in 0..MaxDays,
          placeholder \in BOOLEAN, total \in {500, 5000}, delta \in {-51, -50, 0, 10, 11},
          config \in Configs :
          mt = [pc |-> "candidate",
                receipt |-> [merchant |-> pair[1], date |-> receipt_date,
                             date_is_placeholder |-> placeholder, total |-> total],
                txn_date |-> txn_date, txn_amount |-> total + delta,
                txn_payee |-> pair[2], config |-> config,
                direction |-> "", result |-> NoMatch]
    /\ statement = <<>>
    /\ enriched = [p \in Paths |-> NoFile]
    /\ ledgerBroken = FALSE
    /\ last = NoCall
    /\ enr = [pc |-> "idle"]
    /\ rt = [pc |-> "idle"]
    /\ sess = [pc |-> "idle"]
    /\ cat = [pc |-> "idle"]
    /\ ocr = [pc |-> "idle"]
    /\ grp = [pc |-> "idle"]
    /\ acct = [pc |-> "idle"]
    /\ svc = [pc |-> "idle"]
    /\ dates = [pc |-> "idle"]

\* match_receipt_to_transactions on one transaction: _try_match
TryMatch(postings) ==
    /\ mt.pc = "candidate"
    /\ mt' = [mt EXCEPT
                !.pc = "matched",
                !.direction = "receipt_to_transactions",
                !.result = try_match(mt.receipt,
                                     [date |-> mt.txn_date, payee |-> mt.txn_payee,
                                      postings |-> postings],
                                     mt.config)]
    /\ UNCHANGED <<statement, enriched, ledgerBroken, last, rt, sess, cat, ocr, grp, acct, svc, dates, enr>>

\* match_transaction_to_receipts on one receipt: _try_match_receipt
TryMatchReceipt ==
    /\ mt.pc = "candidate"
    /\ mt' = [mt EXCEPT
                !.pc = "matched",
                !.direction = "transaction_to_receipts",
                !.result = try_match_receipt(mt.txn_date, mt.txn_amount, mt.txn_payee,
                                             mt.receipt, mt.config)]
    /\ UNCHANGED <<statement, enriched, ledgerBroken, last, rt, sess, cat, ocr, grp, acct, svc, dates, enr>>

NextMatcher ==
    \/ \E postings \in PostingShapes(mt.txn_amount) : TryMatch(postings)
    \/ TryMatchReceipt

SpecMatcher == InitMatcher /\ [][NextMatcher]_vars

----------------------------------------------------------------------------
(* Claims about the matcher, checked under SpecMatcher.                    *)

Returned == mt.pc = "matched" /\ mt.result.matched

DateDiff == Abs(mt.txn_date - mt.receipt.date)

\* |charge - total| and max(fixed tolerance, total x percent tolerance), both
\* in hundredths of a cent
AmountDiff == Abs(mt.txn_amount - mt.receipt.total) * 100

ClaimedTolerance ==
    IF mt.config.amount_tolerance * 100
          >= mt.receipt.total * mt.config.amount_tolerance_percent
    THEN mt.config.amount_tolerance * 100
    ELSE mt.receipt.total * mt.config.amount_tolerance_percent

\* C8: in both matching directions every returned match has a confidence in
\* [0, 1], a merchant similarity of at least 0.3, a date difference within the
\* day tolerance when the receipt has a real date, and an amount difference
\* of at most max(fixed tolerance, receipt total x percent tolerance).
C8_ReturnedMatchesAreWithinTolerances ==
    Returned =>
        /\ FLeq(Zero, mt.result.confidence)
        /\ FLeq(mt.result.confidence, One)
        /\ FLeq(Frac(3, 10), merchant_similarity(mt.receipt.merchant, mt.txn_payee))
        /\ (~mt.receipt.date_is_placeholder => DateDiff <= mt.config.date_tolerance_days)
        /\ AmountDiff <= ClaimedTolerance

\* A match returned at the edge of the date window and of the amount band.
C8_Witness ==
    /\ Returned
    /\ mt.direction = "transaction_to_receipts"
    /\ ~mt.receipt.date_is_placeholder
    /\ DateDiff = mt.config.date_tolerance_days
    /\ DateDiff > 0
    /\ AmountDiff = ClaimedTolerance
    /\ AmountDiff > 0

\* C9 as claimed: for a receipt with a real date the date contribution is 0.4
\* at a difference of 0 days and falls linearly to 0 at a difference equal to
\* the day tolerance: it is 0.4 x (tolerance - difference) / tolerance.
C9_DateScoreZeroAtTolerance ==
    (Returned /\ ~mt.receipt.date_is_placeholder /\ mt.config.date_tolerance_days > 0) =>
        mt.result.date_part[1] * 5 * mt.config.date_tolerance_days
            = 2 * (mt.config.date_tolerance_days - DateDiff) * mt.result.date_part[2]

\* C9 as amended: the date contribution is 0.4 at a difference of 0 days and
\* falls linearly by 0.4 / (tolerance + 1) per day: it is
\* 0.4 x (tolerance + 1 - difference) / (tolerance + 1), so 0.4 / (tolerance + 1)
\* at a difference equal to the tolerance (0.1 at the default 3 days).
C9_DateScoreZeroAfterTolerance ==
    (Returned /\ ~mt.receipt.date_is_placeholder) =>
        mt.result.date_part[1] * 5 * (mt.config.date_tolerance_days + 1)
            = 2 * (mt.config.date_tolerance_days + 1 - DateDiff) * mt.result.date_part[2]

\* A match at the default tolerance of 3 days, 3 days off: it scores 0.1.
C9_Witness ==
    /\ Returned
    /\ ~mt.receipt.date_is_placeholder
    /\ mt.config.date_tolerance_days = DefaultDateToleranceDays
    /\ DateDiff = DefaultDateToleranceDays
    /\ mt.result.date_part = Frac(1, 10)

----------------------------------------------------------------------------
(* receipt/formatter.py: the receipt draft serializer.  Decimal amounts    *)
(* have two decimal places and are counted in cents; a date is a record    *)
(* [y, m, d]; an optional value is a record [none, v].                     *)

NoneDec == [none |-> TRUE, v |-> 0]
NoneStr == [none |-> TRUE, v |-> ""]
NoneDate == [none |-> TRUE, v |-> [y |-> 0, m |-> 0, d |-> 0]]
Some(v) == [none |-> FALSE, v |-> v]

DigitChars == "0123456789"

\* str(n) for n >= 0
RECURSIVE IntToStr(_)
IntToStr(n) ==
    IF n < 10 THEN Ch(DigitChars, n + 1)
    ELSE IntToStr(n \div 10) \o Ch(DigitChars, (n % 10) + 1)

\* int(s) for a string of digits
RECURSIVE StrToInt(_)
StrToInt(s) ==
    IF s = "" THEN 0
    ELSE StrToInt(SubSeq(s, 1, Len(s) - 1)) * 10 + (Find(DigitChars, Ch(s, Len(s))) - 1)

\* f"{amount:.2f}"
Fmt2(cents) ==
    (IF cents < 0 THEN "-" ELSE "")
    \o IntToStr(Abs(cents) \div 100) \o "."
    \o Ch(DigitChars, ((Abs(cents) % 100) \div 10) + 1)
    \o Ch(DigitChars, (Abs(cents) % 10) + 1)

RECURSIVE Spaces(_)
Spaces(n) == IF n <= 0 THEN "" ELSE " " \o Spaces(n - 1)

\* f"{n:0{width}d}"
ZeroPad(n, width) ==
    LET t == IntToStr(n)
    IN SubSeq("0000", 1, width - Len(t)) \o t

\* date.isoformat()
isoformat(date) == ZeroPad(date.y, 4) \o "-" \o ZeroPad(date.m, 2) \o "-" \o ZeroPad(date.d, 2)

\* s.replace('"', "'")
RECURSIVE ReplaceQuotes(_)
ReplaceQuotes(s) ==
    IF s = "" THEN ""
    ELSE (IF Head(s) = "\"" THEN "'" ELSE Head(s)) \o ReplaceQuotes(Tail(s))

\* "\n".join(parts).split("\n"): a part that holds line ends is several lines.
RECURSIVE SplitJoined(_)
SplitJoined(parts) ==
    IF parts = <<>> THEN <<>>
    ELSE SplitNL(Head(parts)) \o SplitJoined(Tail(parts))

\* _format_receipt_date_for_output(receipt)
format_receipt_date_for_output(receipt) ==
    [date_str |-> isoformat(receipt.date), is_placeholder |-> receipt.date_is_placeholder]

MaxOf(S) == CHOOSE x \in S : \A y \in S : y <= x

\* _format_postings_aligned(postings): postings are [account, amount, comment]
format_postings_aligned(postings) ==
    IF postings = <<>> THEN <<>>
    ELSE LET max_account_len == MaxOf({Len(postings[i].account) : i \in 1..Len(postings)})
             max_amount_len == MaxOf({Len(postings[i].amount) : i \in 1..Len(postings)})
             line(q) ==
                 LET base == "  " \o q.account \o Spaces(max_account_len - Len(q.account))
                             \o "  " \o Spaces(max_amount_len - Len(q.amount)) \o q.amount
                 IN IF ~q.comment.none /\ q.comment.v # ""
                    THEN base \o "  ; " \o q.comment.v ELSE base
         IN [i \in 1..Len(postings) |-> line(postings[i])]

IsWordChar(c) ==
    \/ IsDigit(c) \/ IsUpperLetter(c) \/ c = "_"
    \/ c \in DOMAIN LowerToUpper

\* re.search(r"\*{2,}\s*([0-9]{4})\b", line): the four digits, "" without a match
CardDigits(line) ==
    LET n == Len(line)
        \* the first place after the stars and the white space that follow place i
        after(i) ==
            LET stops == {j \in i..(n + 1) :
                            /\ \A k \in i..(j - 1) : Ch(line, k) = "*" \/ IsSpace(Ch(line, k))
                            /\ \A k \in i..(j - 1) :
                                  IsSpace(Ch(line, k)) => \A x \in k..(j - 1) : IsSpace(Ch(line, x))}
            IN MaxOf(stops)
        hits == {i \in 1..(n - 1) :
                    /\ Ch(line, i) = "*" /\ Ch(line, i + 1) = "*"
                    /\ LET j == after(i)
                       IN /\ j + 3 <= n
                          /\ \A k \in j..(j + 3) : IsDigit(Ch(line, k))
                          /\ (j + 4 > n \/ ~IsWordChar(Ch(line, j + 4)))}
    IN IF hits = {} THEN ""
       ELSE LET i == CHOOSE x \in hits : \A y \in hits : x <= y
            IN SubSeq(line, after(i), after(i) + 3)

\* _extract_card_last4(raw_text)
extract_card_last4(raw_text) ==
    LET lines == SplitNL(raw_text)
        found == {i \in 1..Len(lines) : CardDigits(lines[i]) # ""}
    IN IF raw_text = "" \/ found = {} THEN NoneStr
       ELSE Some(CardDigits(lines[CHOOSE i \in found : \A j \in found : i <= j]))

\* _build_posting_warning_map: the posting (counted from 0) a warning goes after
WarningPosting(warning, item_count) ==
    IF item_count > 0
    THEN IF warning.after_item_index.none THEN item_count
         ELSE Max(0, Min(warning.after_item_index.v, item_count - 1)) + 1
    ELSE 0

\* _inject_posting_warnings(formatted_postings, _build_posting_warning_map(...))
RECURSIVE InjectWarnings(_, _, _, _)
InjectWarnings(formatted_postings, warnings, item_count, idx) ==
    IF idx >= Len(formatted_postings) THEN <<>>
    ELSE LET mine == SelectSeq(warnings,
                        LAMBDA w : w.message # "" /\ WarningPosting(w, item_count) = idx)
         IN <<formatted_postings[idx + 1]>>
            \o [k \in 1..Len(mine) |-> "; WARN:PARSER " \o mine[k].message]
            \o InjectWarnings(formatted_postings, warnings, item_count, idx + 1)

RECURSIVE SumPrices(_)
SumPrices(items) == IF items = <<>> THEN 0 ELSE Head(items).price + SumPrices(Tail(items))

\* format_parsed_receipt(receipt, credit_card_account, image_sha256): the list
\* `lines` that the function joins with "\n" (formatter.py line 214).
format_parsed_receipt(receipt, credit_card_account, image_sha256) ==
    LET d == format_receipt_date_for_output(receipt)
        has_tax == ~receipt.tax.none /\ receipt.tax.v # 0
        header ==
            <<"; === PARSED RECEIPT - AWAITING CC MATCH ===",
              "; @merchant: " \o receipt.merchant>>
            \o (IF d.is_placeholder
                THEN <<"; @date: UNKNOWN",
                       "; FIXME: unknown date (placeholder used: " \o d.date_str \o ")">>
                ELSE <<"; @date: " \o d.date_str>>)
            \o <<"; @total: " \o Fmt2(receipt.total),
                 "; @items: " \o IntToStr(Len(receipt.items))>>
            \o (IF has_tax THEN <<"; @tax: " \o Fmt2(receipt.tax.v)>> ELSE <<>>)
            \o (IF receipt.image_filename # ""
                THEN <<"; @image: " \o receipt.image_filename,
                       "; @image_filename: " \o receipt.image_filename>>
                ELSE <<>>)
            \o (IF ~image_sha256.none /\ image_sha256.v # ""
                THEN <<"; @image_sha256: " \o image_sha256.v>> ELSE <<>>)
            \o <<"">>
        txn_line == d.date_str \o " * \"" \o ReplaceQuotes(receipt.merchant)
                    \o "\" \"Receipt scan\""
        card_last4 == extract_card_last4(receipt.raw_text)
        card_posting ==
            [account |-> credit_card_account,
             amount |-> "-" \o Fmt2(receipt.total) \o " CAD",
             comment |-> IF card_last4.none THEN NoneStr
                         ELSE Some("card ****" \o card_last4.v)]
        item_posting(item) ==
            [account |-> IF item.category.none \/ item.category.v = ""
                         THEN "Expenses:FIXME" ELSE item.category.v,
             amount |-> Fmt2(item.price) \o " CAD",
             comment |-> Some(ReplaceQuotes(item.description)
                              \o (IF item.quantity > 1
                                  THEN " (qty " \o IntToStr(item.quantity) \o ")"
                                  ELSE ""))]
        items_total == SumPrices(receipt.items) + (IF has_tax THEN receipt.tax.v ELSE 0)
        diff == receipt.total - items_total
        postings ==
            <<card_posting>>
            \o [i \in 1..Len(receipt.items) |-> item_posting(receipt.items[i])]
            \o (IF has_tax
                THEN <<[account |-> "Expenses:Tax:HST",
                        amount |-> Fmt2(receipt.tax.v) \o " CAD", comment |-> NoneStr]>>
                ELSE <<>>)
            \o (IF items_total # receipt.total /\ receipt.total > 0 /\ diff > 0
                THEN <<[account |-> "Expenses:FIXME", amount |-> Fmt2(diff) \o " CAD",
                        comment |-> Some("FIXME: unaccounted amount")]>>
                ELSE <<>>)
        raw_lines == SplitNL(receipt.raw_text)
        raw == IF receipt.raw_text = "" THEN <<>>
               ELSE <<"", "; --- Raw OCR Text (for reference) ---">>
                    \o [k \in 1..Len(SelectSeq(raw_lines, LAMBDA l : Strip(l) # "")) |->
                          "; " \o SelectSeq(raw_lines, LAMBDA l : Strip(l) # "")[k]]
    IN header \o <<txn_line>>
       \o InjectWarnings(format_postings_aligned(postings), receipt.warnings,
                         Len(receipt.items), 0)
       \o raw \o <<"">>

----------------------------------------------------------------------------
(* runtime/receipt_storage.py: parse_receipt_from_beancount.               *)

\* placeholder_receipt_date(): the first day of the current month
PlaceholderDate == [y |-> 2025, m |-> 2, d |-> 1]

DaysInMonth(y, m) ==
    IF m \in {4, 6, 9, 11} THEN 30
    ELSE IF m # 2 THEN 31
    ELSE IF (y % 4 = 0 /\ y % 100 # 0) \/ y % 400 = 0 THEN 29 ELSE 28

\* date.fromisoformat(s) for the form YYYY-MM-DD: None stands for ValueError
fromisoformat(s) ==
    IF Len(s) = 10 /\ IsIsoDatePrefix(s)
    THEN LET y == StrToInt(SubSeq(s, 1, 4))
             m == StrToInt(SubSeq(s, 6, 7))
             d == StrToInt(SubSeq(s, 9, 10))
         IN IF y >= 1 /\ m \in 1..12 /\ d >= 1 /\ d <= DaysInMonth(y, m)
            THEN Some([y |-> y, m |-> m, d |-> d]) ELSE NoneDate
    ELSE NoneDate

\* Decimal(s) for a stripped text with at most two decimals, in cents: None
\* stands for InvalidOperation.
ParseDecimal(s) ==
    LET negative == StartsWith(s, "-")
        body == IF negative \/ StartsWith(s, "+") THEN Tail(s) ELSE s
        dot == Find(body, ".")
        whole == IF dot = 0 THEN body ELSE SubSeq(body, 1, dot - 1)
        frac == IF dot = 0 THEN "" ELSE SubSeq(body, dot + 1, Len(body))
        digits(t) == \A i \in 1..Len(t) : IsDigit(Ch(t, i))
    IN IF digits(whole) /\ digits(frac) /\ Len(whole) + Len(frac) > 0 /\ Len(frac) <= 2
       THEN LET cents == StrToInt(whole) * 100
                         + StrToInt(SubSeq(frac \o "00", 1, 2))
            IN Some(IF negative THEN -cents ELSE cents)
       ELSE NoneDec

\* line.split(":", 1)[1].strip()
AfterColon(line) == Strip(SubSeq(line, Find(line, ":") + 1, Len(line)))

\* The first loop of parse_receipt_from_beancount (lines 262-289), one line.
HeaderLine(h, raw_line) ==
    LET line == Strip(raw_line)
        value == AfterColon(line)
    IN IF StartsWith(line, "; @merchant:") THEN [h EXCEPT !.merchant = value]
       ELSE IF StartsWith(line, "; @date:")
            THEN IF Upper(value) = "UNKNOWN"
                 THEN [h EXCEPT !.date_is_unknown = TRUE, !.receipt_date = NoneDate]
                 ELSE [h EXCEPT !.receipt_date = fromisoformat(value)]
       ELSE IF StartsWith(line, "; @total:")
            THEN IF ParseDecimal(value).none THEN h
                 ELSE [h EXCEPT !.total = ParseDecimal(value).v]
       ELSE IF StartsWith(line, "; @tax:")
            THEN IF ParseDecimal(value).none THEN h
                 ELSE [h EXCEPT !.tax = ParseDecimal(value)]
       ELSE IF StartsWith(line, "; @image_filename:") \/ StartsWith(line, "; @image:")
            THEN [h EXCEPT !.image_filename = value]
       ELSE h

RECURSIVE ParseHeader(_, _, _)
ParseHeader(h, lines, i) ==
    IF i > Len(lines) THEN h ELSE ParseHeader(HeaderLine(h, lines[i]), lines, i + 1)

\* re.search(r'\*\s+"([^"]*)"', line): the group, None without a match
PayeeMatch(line) ==
    LET n == Len(line)
        quote(i) ==
            \* the place of the opening quote for a match that starts at the star i
            LET after == {j \in (i + 1)..n : ~IsSpace(Ch(line, j))}
            IN IF after = {} THEN 0
               ELSE LET j == CHOOSE x \in after : \A y \in after : x <= y
                    IN IF j > i + 1 /\ Ch(line, j) = "\"" THEN j ELSE 0
        close(j) ==
            LET ends == {k \in (j + 1)..n : Ch(line, k) = "\""}
            IN IF ends = {} THEN 0 ELSE CHOOSE x \in ends : \A y \in ends : x <= y
        hits == {i \in 1..n : Ch(line, i) = "*" /\ quote(i) # 0 /\ close(quote(i)) # 0}
    IN IF hits = {} THEN NoneStr
       ELSE LET i == CHOOSE x \in hits : \A y \in hits : x <= y
            IN Some(SubSeq(line, quote(i) + 1, close(quote(i)) - 1))

\* The second loop (lines 292-306): the first transaction line gives the date
\* when the header gave none or said UNKNOWN, and the merchant when the header
\* gave none.
ParseTransactionLine(h, lines) ==
    LET txn == {i \in 1..Len(lines) : TXN_START_RE(Strip(lines[i]))}
    IN IF txn = {} THEN h
       ELSE LET line == Strip(lines[CHOOSE i \in txn : \A j \in txn : i <= j])
                parsed == fromisoformat(SubSeq(line, 1, 10))
                h1 == IF (h.receipt_date.none \/ h.date_is_unknown) /\ ~parsed.none
                      THEN [h EXCEPT !.receipt_date = parsed, !.date_is_unknown = FALSE]
                      ELSE h
                payee == PayeeMatch(line)
            IN IF ~payee.none /\ h1.merchant = "Unknown"
               THEN [h1 EXCEPT !.merchant = payee.v] ELSE h1

\* The first white space character of s, Len(s) + 1 when there is none.
FirstSpace(s) ==
    LET spaces == {i \in 1..Len(s) : IsSpace(Ch(s, i))}
    IN IF spaces = {} THEN Len(s) + 1 ELSE CHOOSE i \in spaces : \A j \in spaces : i <= j

\* expense_pattern.match(line),
\* expense_pattern = ^\s+(Expenses:\S+)\s+(\d+\.?\d*)\s+\w+\s*;?\s*(.*)$
ExpenseMatch(line) ==
    LET none == [ok |-> FALSE, category |-> "", number |-> "", rest |-> ""]
        s1 == LStrip(line)
        category == SubSeq(s1, 1, FirstSpace(s1) - 1)
        s2 == LStrip(SubSeq(s1, Len(category) + 1, Len(s1)))
        number == SubSeq(s2, 1, FirstSpace(s2) - 1)
        dots == {i \in 1..Len(number) : Ch(number, i) = "."}
        s3 == LStrip(SubSeq(s2, Len(number) + 1, Len(s2)))
        words == {k \in 0..Len(s3) : \A i \in 1..k : IsWordChar(Ch(s3, i))}
        s4 == LStrip(SubSeq(s3, MaxOf(words) + 1, Len(s3)))
        s5 == IF StartsWith(s4, ";") THEN LStrip(Tail(s4)) ELSE s4
    IN IF /\ Len(s1) < Len(line)
          /\ StartsWith(category, "Expenses:") /\ Len(category) > Len("Expenses:")
          /\ Len(s2) < Len(s1) - Len(category)
          /\ number # "" /\ IsDigit(Head(number))
          /\ Cardinality(dots) <= 1
          /\ \A i \in 1..Len(number) : IsDigit(Ch(number, i)) \/ Ch(number, i) = "."
          /\ Len(s3) < Len(s2) - Len(number)
          /\ MaxOf(words) >= 1
       THEN [ok |-> TRUE, category |-> category, number |-> number, rest |-> s5]
       ELSE none

\* The places where "(qty", white space, digits and ")" start in s.
QtyMatches(s) ==
    {i \in 1..Len(s) :
        /\ StartsWith(SubSeq(s, i, Len(s)), "(qty")
        /\ LET t == SubSeq(s, i + 4, Len(s))
               u == LStrip(t)
               close == Find(u, ")")
           IN Len(u) < Len(t) /\ close > 1 /\ AllDigits(SubSeq(u, 1, close - 1))}

QtyEnd(s, i) == i + Find(SubSeq(s, i, Len(s)), ")") - 1

\* re.sub(r"\s*\(qty\s+\d+\)", "", s)
RECURSIVE RemoveQty(_)
RemoveQty(s) ==
    IF QtyMatches(s) = {} THEN s
    ELSE LET i == CHOOSE x \in QtyMatches(s) : \A y \in QtyMatches(s) : x <= y
         IN SubSeq(s, 1, WsRunStart(s, i - 1) - 1)
            \o RemoveQty(SubSeq(s, QtyEnd(s, i) + 1, Len(s)))

\* The item of a posting line (lines 331-345): qty holds the places where
\* "(qty N)" matches in the description.
PostingItem(category, price, description, qty) ==
    LET first == CHOOSE x \in qty : \A y \in qty : x <= y
    IN [description |-> IF qty = {} THEN description ELSE RemoveQty(description),
        price |-> price,
        quantity |-> IF qty = {} THEN 1
                     ELSE StrToInt(LStrip(SubSeq(description, first + 4,
                                                 QtyEnd(description, first) - 1))),
        category |-> Some(category)]

\* The body of the third loop for a line the pattern matched (lines 313-345).
MatchedPosting(st, match, price, description) ==
    IF ~match.ok \/ price.none THEN st
    ELSE IF Contains(match.category, "Tax:HST") \/ Contains(match.category, "Tax:GST")
         THEN [st EXCEPT !.tax = price]
    ELSE IF Contains(description, "FIXME: unaccounted") THEN st
    ELSE [st EXCEPT !.items = Append(@, PostingItem(match.category, price.v, description,
                                                    QtyMatches(description)))]

ExpensePosting(st, match) ==
    MatchedPosting(st, match, ParseDecimal(match.number), Strip(match.rest))

\* The third loop (lines 311-345), one line: the state is [items, tax].
PostingLine(st, line) == ExpensePosting(st, ExpenseMatch(line))

RECURSIVE ParsePostings(_, _, _)
ParsePostings(st, lines, i) ==
    IF i > Len(lines) THEN st ELSE ParsePostings(PostingLine(st, lines[i]), lines, i + 1)

\* The values of the first loop's variables before it (lines 253-259).
ParseDefaults ==
    [merchant |-> "Unknown", receipt_date |-> NoneDate, date_is_unknown |-> FALSE,
     total |-> 0, tax |-> NoneDec, image_filename |-> ""]

\* Lines 347-365: the total when the header gave none, the placeholder date,
\* the Receipt.  h holds what the first two loops found, p the third's.
ParsedReceipt(h, p) ==
    [merchant |-> h.merchant,
     date |-> IF h.receipt_date.none THEN PlaceholderDate ELSE h.receipt_date.v,
     date_is_placeholder |-> h.date_is_unknown \/ h.receipt_date.none,
     total |-> IF h.total = 0 /\ p.items # <<>>
               THEN SumPrices(p.items) + (IF ~p.tax.none /\ p.tax.v # 0 THEN p.tax.v ELSE 0)
               ELSE h.total,
     items |-> p.items,
     tax |-> p.tax,
     raw_text |-> "",
     image_filename |-> h.image_filename,
     warnings |-> <<>>]

ParsedWithHeader(h, lines) ==
    ParsedReceipt(h, ParsePostings([items |-> <<>>, tax |-> h.tax], lines, 1))

ParsedLines(lines) ==
    ParsedWithHeader(ParseTransactionLine(ParseHeader(ParseDefaults, lines, 1), lines), lines)

\* parse_receipt_from_beancount on the file's text, given as the list that
\* "\n".join made it from: content.split("\n") is SplitJoined(content).
parse_receipt_from_beancount(content) == ParsedLines(SplitJoined(content))

----------------------------------------------------------------------------
(* The draft round trip as a state machine: a Receipt is drawn, serialized *)
(* by format_parsed_receipt, saved, and re-parsed from the saved text.     *)

Item(description, price, quantity, category) ==
    [description |-> description, price |-> price, quantity |-> quantity,
     category |-> category]

\* The items of a receipt: none, one, two in either order, one without a
\* category, a return, a gift card, a description that reads like a quantity.
ItemLists ==
    LET Banana == Item("BANANA", 300, 2, Some("Expenses:Food:Produce"))
        Bread == Item("BREAD", 500, 1, Some("Expenses:Food:Bakery"))
    IN { <<>>, <<Banana>>, <<Bread, Banana>>, <<Banana, Bread>>,
         <<Item("MILK \"2%\"", 449, 1, NoneStr)>>,
         <<Bread, Item("RETURN", -500, 1, Some("Expenses:Food:Bakery"))>>,
         <<Item("GIFT CARD", 2500, 1, Some("Assets:GiftCards")), Banana>>,
         <<Item("EGGS (qty 12)", 399, 1, Some("Expenses:Food:Dairy"))>> }

\* A recognized date, or the placeholder with its flag.
ReceiptDates ==
    { [date |-> [y |-> 2026, m |-> 2, d |-> 1], date_is_placeholder |-> FALSE],
      [date |-> PlaceholderDate, date_is_placeholder |-> TRUE] }

NoneInt == [none |-> TRUE, v |-> 0]

\* What comes with the scan: the OCR text, the parser's warnings, the image.
ScanContexts ==
    { [raw_text |-> "", warnings |-> <<>>, image_filename |-> ""],
      [raw_text |-> "TOTAL 9.07\nVISA ****1234\n",
       warnings |-> <<[message |-> "price 1.07 without item", after_item_index |-> NoneInt]>>,
       image_filename |-> "receipt.jpg"],
      [raw_text |-> "@total: 99.99\n@date: 2024-12-31",
       warnings |-> <<>>, image_filename |-> "receipt.jpg"] }

CreditCardAccount == "Liabilities:CreditCard:PENDING"

Receipts ==
    { [merchant |-> merchant, date |-> dt.date,
       date_is_placeholder |-> dt.date_is_placeholder, total |-> total,
       items |-> items, tax |-> tax, raw_text |-> scan.raw_text,
       image_filename |-> scan.image_filename, warnings |-> scan.warnings] :
      merchant \in {"Test Merchant", "Joe's \"Deli\"", " Deli "}, dt \in ReceiptDates,
      total \in {0, 300, 907}, items \in ItemLists,
      tax \in {NoneDec, Some(0), Some(107)}, scan \in ScanContexts }

InitRoundTrip ==
    /\ \E receipt \in Receipts :
          rt = [pc |-> "receipt", receipt |-> receipt, content |-> <<>>,
                parsed |-> receipt]
    /\ statement = <<>>
    /\ enriched = [p \in Paths |-> NoFile]
    /\ ledgerBroken = FALSE
    /\ last = NoCall
    /\ enr = [pc |-> "idle"]
    /\ mt = [pc |-> "idle"]
    /\ sess = [pc |-> "idle"]
    /\ cat = [pc |-> "idle"]
    /\ ocr = [pc |-> "idle"]
    /\ grp = [pc |-> "idle"]
    /\ acct = [pc |-> "idle"]
    /\ svc = [pc |-> "idle"]
    /\ dates = [pc |-> "idle"]

\* The scan step: the draft of the receipt is formatted and written to its
\* file (scan.py lines 77-79, save_scanned_receipt), with the digest of the
\* scanned image when the caller passes one.
SaveReceipt ==
    /\ rt.pc = "receipt"
    /\ \E image_sha256 \in {NoneStr, Some("9f86d081884c7d65")} :
          rt' = [rt EXCEPT !.pc = "saved",
                           !.content = format_parsed_receipt(rt.receipt, CreditCardAccount,
                                                             image_sha256)]
    /\ UNCHANGED <<statement, enriched, ledgerBroken, last, mt, sess, cat, ocr, grp, acct, svc, dates, enr>>

\* parse_receipt_from_beancount on the saved file
LoadReceipt ==
    /\ rt.pc = "saved"
    /\ rt' = [rt EXCEPT !.pc = "parsed",
                        !.parsed = parse_receipt_from_beancount(rt.content)]
    /\ UNCHANGED <<statement, enriched, ledgerBroken, last, mt, sess, cat, ocr, grp, acct, svc, dates, enr>>

NextRoundTrip == SaveReceipt \/ LoadReceipt

SpecRoundTrip == InitRoundTrip /\ [][NextRoundTrip]_vars

\* The metadata of a re-parsed receipt.
Metadata(receipt) ==
    [merchant |-> receipt.merchant, date |-> receipt.date,
     date_is_placeholder |-> receipt.date_is_placeholder, total |-> receipt.total,
     tax |-> receipt.tax, image_filename |-> receipt.image_filename]

\* C30: the metadata of the re-parsed receipt is what the header lines give:
\* it is the metadata re-parsed from the same receipt saved without its raw
\* OCR text.
C30_RawTextCannotChangeMetadata ==
    rt.pc = "parsed" =>
        \E reference \in {parse_receipt_from_beancount(
                              format_parsed_receipt([rt.receipt EXCEPT !.raw_text = ""],
                                                    CreditCardAccount, NoneStr))} :
            Metadata(rt.parsed) = Metadata(reference)

----------------------------------------------------------------------------
(* Properties of the draft round trip.                                     *)

\* C7: a receipt with date_is_placeholder = true comes back from
\* parse_receipt_from_beancount(format_parsed_receipt(receipt)) with
\* date_is_placeholder = true.
C7_PlaceholderFlagSurvivesRoundTrip ==
    (rt.pc = "parsed" /\ rt.receipt.date_is_placeholder)
        => rt.parsed.date_is_placeholder

\* C10: for every receipt, the re-parsed draft has the same merchant, date,
\* total and tax and the same ordered list of items, each with the same
\* description, price, quantity and category.
C10_RoundTripReturnsSameRecord ==
    rt.pc = "parsed"
        => /\ rt.parsed.merchant = rt.receipt.merchant
           /\ rt.parsed.date = rt.receipt.date
           /\ rt.parsed.total = rt.receipt.total
           /\ rt.parsed.tax = rt.receipt.tax
           /\ rt.parsed.items = rt.receipt.items

----------------------------------------------------------------------------
(* The ledger as the loader returns it.  beancount's load_file is outside  *)
(* the repository: it reads the statement file and the files it includes   *)
(* (an include path is relative to the including file), gives every        *)
(* transaction its file and the line number of its first line, and orders  *)
(* the entries by date, then line number.  Files are held by their path,   *)
(* as lists of lines with their line ends.                                 *)

StatementPath == "records/carda.beancount"

\* str(Path(path).parent) with the separator that follows it
Dir(path) == SubSeq(path, 1, MaxOf({0} \cup {i \in 1..Len(path) : Ch(path, i) = "/"}))

\* Path(name).stem for a name ending in ".beancount"
Stem(name) == SubSeq(name, 1, Len(name) - Len(".beancount"))

\* s.split(): the words of s
RECURSIVE Tokens(_)
Tokens(s) ==
    LET t == LStrip(s)
    IN IF t = "" THEN <<>>
       ELSE <<SubSeq(t, 1, FirstSpace(t) - 1)>> \o Tokens(SubSeq(t, FirstSpace(t), Len(t)))

\* The texts between the first and the second, and the third and the fourth
\* double quote of a line.
QuotedStrings(line) ==
    LET quotes == {i \in 1..Len(line) : Ch(line, i) = "\""}
        nth(n) == CHOOSE i \in quotes : Cardinality({j \in quotes : j < i}) = n - 1
    IN [k \in 1..(Cardinality(quotes) \div 2) |->
          SubSeq(line, nth(2 * k - 1) + 1, nth(2 * k) - 1)]

RECURSIVE DaysBeforeMonth(_, _)
DaysBeforeMonth(y, m) ==
    IF m <= 1 THEN 0 ELSE DaysInMonth(y, m - 1) + DaysBeforeMonth(y, m - 1)

\* date.toordinal(): (a - b).days is toordinal(a) - toordinal(b)
toordinal(d) ==
    LET y == d.y - 1
    IN y * 365 + (y \div 4) - (y \div 100) + (y \div 400) + DaysBeforeMonth(d.y, d.m) + d.d

\* A posting line of a transaction, from its words and its number: account,
\* number, currency; "" as the account for a line that holds a comment only.
Posting(tok, number) ==
    [account |-> IF tok = <<>> THEN "" ELSE tok[1],
     has_units |-> ~number.none,
     number |-> number.v,
     currency |-> IF Len(tok) >= 3 THEN tok[3] ELSE ""]

LoadPosting(line) ==
    LET tok == Tokens(IF Find(line, ";") = 0 THEN line
                      ELSE SubSeq(line, 1, Find(line, ";") - 1))
    IN Posting(tok, IF Len(tok) >= 2 THEN ParseDecimal(tok[2]) ELSE NoneDec)

IsIndented(line) == (StartsWith(line, " ") \/ StartsWith(line, "\t")) /\ Strip(line) # ""

RECURSIVE PostingsEnd(_, _)
PostingsEnd(lines, idx) ==
    IF idx > Len(lines) \/ ~IsIndented(lines[idx]) THEN idx ELSE PostingsEnd(lines, idx + 1)

\* A transaction of the file at path: the line of its header, its date, the
\* quoted texts of the header, its posting lines.
Transaction(path, i, day, strings, body) ==
    [file |-> path, line |-> i, day |-> day, date |-> toordinal(day),
     payee |-> IF Len(strings) >= 2 THEN strings[1] ELSE "",
     narration |-> IF Len(strings) >= 2 THEN strings[2]
                   ELSE IF Len(strings) = 1 THEN strings[1] ELSE "",
     postings |-> SelectSeq([k \in 1..Len(body) |-> LoadPosting(body[k])],
                            LAMBDA q : q.account # "")]

\* The transaction whose first line is line i of the file at path.
LoadTransaction(path, lines, i) ==
    Transaction(path, i, fromisoformat(SubSeq(lines[i], 1, 10)).v, QuotedStrings(lines[i]),
                SubSeq(lines, i + 1, PostingsEnd(lines, i + 1) - 1))

\* A transaction balances when its numbers add up to zero, or one posting
\* leaves its number out.
Balances(txn) ==
    LET n == Len(txn.postings)
        without == {i \in 1..n : ~txn.postings[i].has_units}
        sum[i \in 0..n] == IF i = 0 THEN 0 ELSE sum[i - 1] + txn.postings[i].number
    IN Cardinality(without) = 1 \/ (without = {} /\ sum[n] = 0)

\* include "<path>" at the start of a line: the path, "" on other lines
IncludeTarget(line) ==
    IF StartsWith(line, "include \"") /\ Cardinality({i \in 1..Len(line) : Ch(line, i) = "\""}) >= 2
    THEN QuotedStrings(line)[1] ELSE ""

\* What the loader got from some files: the transactions in the order they
\* were read, and whether it reports an error.
Loaded(entries, errors) == [entries |-> entries, errors |-> errors]

Both(a, b) == Loaded(a.entries \o b.entries, a.errors \/ b.errors)

\* The transactions of one file, with the lines they start at; one that does
\* not balance is an error.
OwnEntries(path, lines, starts) ==
    [k \in 1..Cardinality(starts) |->
        LoadTransaction(path, lines,
                        CHOOSE i \in starts : Cardinality({j \in starts : j < i}) = k - 1)]

Checked(own) == Loaded(own, \E k \in 1..Len(own) : ~Balances(own[k]))

\* The file at path, then the files its lines from i on include; a file
\* that is missing is an error.
RECURSIVE LoadFile(_, _)
RECURSIVE LoadIncludes(_, _, _, _)
LoadIncludes(fs, path, lines, i) ==
    IF i > Len(lines) THEN Loaded(<<>>, FALSE)
    ELSE IF IncludeTarget(lines[i]) = "" THEN LoadIncludes(fs, path, lines, i + 1)
    ELSE Both(LoadFile(fs, Dir(path) \o IncludeTarget(lines[i])),
              LoadIncludes(fs, path, lines, i + 1))

LoadFile(fs, path) ==
    IF path \notin DOMAIN fs THEN Loaded(<<>>, TRUE)
    ELSE Both(Checked(OwnEntries(path, fs[path],
                                 {i \in 1..Len(fs[path]) : IsTxnStart(fs[path][i])})),
              LoadIncludes(fs, path, fs[path], 1))

\* sorted(entries, key=entry_sortkey): by date, then line number; entries
\* with the same key keep their order.
SortEntries(entries) ==
    LET n == Len(entries)
        before(j, k) ==
            \/ entries[j].date < entries[k].date
            \/ entries[j].date = entries[k].date /\ entries[j].line < entries[k].line
            \/ entries[j].date = entries[k].date /\ entries[j].line = entries[k].line /\ j < k
    IN [r \in 1..n |->
          entries[CHOOSE k \in 1..n : Cardinality({j \in 1..n : before(j, k)}) + 1 = r]]

Sorted(loaded) == Loaded(SortEntries(loaded.entries), loaded.errors)

\* LedgerReader.load(ledger_path): the main ledger includes the statement
\* file; `entries` are the transactions.
load(fs) == Sorted(LoadFile(fs, StatementPath))

----------------------------------------------------------------------------
(* receipt/matcher.py and receipt/formatter.py: the matches of a receipt   *)
(* and the enriched transaction written for a chosen match.                *)

\* f"{x:.0%}" for an exact fraction x (a tie goes to the even neighbour)
Percent(x) ==
    LET q == (100 * x[1]) \div x[2]
        r == (100 * x[1]) % x[2]
    IN IntToStr(IF 2 * r > x[2] \/ (2 * r = x[2] /\ q % 2 = 1) THEN q + 1 ELSE q) \o "%"

\* ", ".join(details) of _try_match for a transaction that matched
match_details(receipt, txn, config, result) ==
    LET date_diff == Abs(txn.date - receipt.date)
        negative == {i \in 1..Len(txn.postings) :
                        txn.postings[i].has_units /\ txn.postings[i].number < 0}
        first == CHOOSE i \in negative : \A j \in negative : i <= j
        amount_diff == Abs(Abs(txn.postings[first].number) - receipt.total)
    IN (IF receipt.date_is_placeholder THEN "date: unknown"
        ELSE IF date_diff = 0 THEN "date: exact match"
        ELSE "date: " \o IntToStr(date_diff) \o " day(s) off")
       \o ", "
       \o (IF amount_diff = 0 THEN "amount: exact match"
           ELSE "amount: $" \o Fmt2(amount_diff) \o " off")
       \o ", "
       \o (IF FLt(Frac(4, 5), result.merchant_score) THEN "merchant: good match"
           ELSE "merchant: partial match (" \o Percent(result.merchant_score) \o ")")

\* The receipt as _try_match compares it: its date as a day number.
MatcherReceipt(receipt) ==
    [merchant |-> receipt.merchant, date |-> toordinal(receipt.date),
     date_is_placeholder |-> receipt.date_is_placeholder, total |-> receipt.total]

\* matches.sort(key=lambda m: m.confidence, reverse=True): equal confidences
\* keep their order.
SortByConfidence(matches) ==
    LET n == Len(matches)
        before(j, k) ==
            \/ FLt(matches[k].confidence, matches[j].confidence)
            \/ (~FLt(matches[j].confidence, matches[k].confidence) /\ j < k)
    IN [r \in 1..n |->
          matches[CHOOSE k \in 1..n : Cardinality({j \in 1..n : before(j, k)}) + 1 = r]]

\* The MatchResult _try_match returns (lines 274-284), None without a match.
MatchResult(receipt, txn, config, result) ==
    IF result.matched
    THEN Some([transaction |-> txn, file_path |-> txn.file, line_number |-> txn.line,
               confidence |-> result.confidence,
               match_details |-> match_details(receipt, txn, config, result)])
    ELSE NoneStr

TryAll(receipt, transactions, config) ==
    [k \in 1..Len(transactions) |->
        MatchResult(receipt, transactions[k], config,
                    try_match(receipt, transactions[k], config))]

Matched(results) ==
    [k \in 1..Len(SelectSeq(results, LAMBDA m : ~m.none)) |->
        SelectSeq(results, LAMBDA m : ~m.none)[k].v]

\* match_receipt_to_transactions(receipt, transactions) with the default
\* configuration
match_receipt_to_transactions(receipt, transactions) ==
    SortByConfidence(Matched(TryAll(MatcherReceipt(receipt), transactions,
                                    MatchConfig(DefaultDateToleranceDays,
                                                DefaultAmountToleranceCents,
                                                DefaultAmountTolerancePercent))))

\* domain/match.py: match_key
match_key(match) == <<match.file_path, match.line_number>>

\* domain/match.py: transaction_charge_amount, None when no posting is negative
transaction_charge_amount(match) ==
    LET postings == match.transaction.postings
        negative == {i \in 1..Len(postings) : postings[i].has_units /\ postings[i].number < 0}
    IN IF negative = {} THEN NoneDec
       ELSE Some(Abs(postings[CHOOSE i \in negative : \A j \in negative : i <= j].number))

\* domain/match.py: itemized_receipt_total
itemized_receipt_total(receipt) ==
    SumPrices(receipt.items) + (IF receipt.tax.none THEN 0 ELSE receipt.tax.v)

\* The postings of the enriched transaction (lines 374-416): cc is the card
\* posting of the matched transaction, if it has one.
EnrichedPostings(receipt, cc, expense_base, items_total, expected_total) ==
    <<IF ~cc.none
      THEN [account |-> cc.v.account, amount |-> Fmt2(cc.v.number) \o " CAD",
            comment |-> NoneStr]
      ELSE [account |-> "Liabilities:CreditCard:FIXME",
            amount |-> "-" \o Fmt2(receipt.total) \o " CAD", comment |-> NoneStr]>>
    \o [i \in 1..Len(receipt.items) |->
          [account |-> IF receipt.items[i].category.none \/ receipt.items[i].category.v = ""
                       THEN expense_base ELSE receipt.items[i].category.v,
           amount |-> Fmt2(receipt.items[i].price) \o " CAD",
           comment |-> Some(ReplaceQuotes(receipt.items[i].description)
                            \o (IF receipt.items[i].quantity > 1
                                THEN " (qty " \o IntToStr(receipt.items[i].quantity) \o ")"
                                ELSE ""))]]
    \o (IF ~receipt.tax.none /\ receipt.tax.v # 0
        THEN <<[account |-> "Expenses:Tax:HST",
                amount |-> Fmt2(receipt.tax.v) \o " CAD", comment |-> NoneStr]>>
        ELSE <<>>)
    \o (IF items_total # expected_total /\ expected_total > 0
           /\ expected_total - items_total > 1
        THEN <<[account |-> expense_base,
                amount |-> Fmt2(expected_total - items_total) \o " CAD",
                comment |-> Some("remaining/unitemized")]>>
        ELSE <<>>)

\* The lines of the enriched transaction, given its header line and its
\* postings.
EnrichedLines(receipt, match, txn_line, items_total, expected_total, postings) ==
    <<"; === ENRICHED TRANSACTION - REVIEW NEEDED ===",
      "; Receipt: " \o receipt.image_filename,
      "; Matched: " \o match.file_path \o ":" \o IntToStr(match.line_number),
      "; Confidence: " \o Percent(match.confidence) \o " (" \o match.match_details \o ")",
      "",
      txn_line>>
    \o (IF items_total # expected_total /\ expected_total > 0
           /\ expected_total - items_total < -1
        THEN <<"  ; WARNING: items total (" \o Fmt2(items_total)
               \o ") exceeds transaction (" \o Fmt2(expected_total) \o ")">>
        ELSE <<>>)
    \o format_postings_aligned(postings)
    \o <<"", "; --- Original Transaction (to be replaced) ---", "; " \o txn_line>>
    \o [k \in 1..Len(SelectSeq(match.transaction.postings, LAMBDA q : q.has_units)) |->
          ";   " \o SelectSeq(match.transaction.postings, LAMBDA q : q.has_units)[k].account
          \o "  " \o Fmt2(SelectSeq(match.transaction.postings, LAMBDA q : q.has_units)[k].number)
          \o " " \o SelectSeq(match.transaction.postings, LAMBDA q : q.has_units)[k].currency]

\* The last posting of a sign (lines 366-372): -1 the card charge, 1 the
\* original expense.
LastPosting(txn, sign) ==
    LET found == {i \in 1..Len(txn.postings) :
                    txn.postings[i].has_units /\ txn.postings[i].number * sign > 0}
    IN IF found = {} THEN NoneStr ELSE Some(txn.postings[MaxOf(found)])

\* format_enriched_transaction(receipt, match): the list `lines` that the
\* function joins with "\n".
format_enriched_transaction(receipt, match) ==
    LET txn == match.transaction
        cc == LastPosting(txn, -1)
        expense == LastPosting(txn, 1)
        items_total == SumPrices(receipt.items)
                       + (IF ~receipt.tax.none /\ receipt.tax.v # 0 THEN receipt.tax.v ELSE 0)
        expected_total == IF ~cc.none THEN Abs(cc.v.number) ELSE receipt.total
    IN EnrichedLines(receipt, match,
                     isoformat(txn.day) \o " * \"" \o ReplaceQuotes(txn.payee) \o "\" \""
                     \o ReplaceQuotes(txn.narration) \o "\"",
                     items_total, expected_total,
                     EnrichedPostings(receipt, cc,
                                      IF expense.none THEN "Expenses:FIXME"
                                      ELSE expense.v.account,
                                      items_total, expected_total))

----------------------------------------------------------------------------
(* application/receipts/match.py: cmd_match as a state machine.  One       *)
(* action runs the code between two prompts; the operator's answers are    *)
(* the inputs.  An answer the prompt rejects asks again and changes        *)
(* nothing.                                                                *)

\* A card charge of 2025-01-10 as the statement file holds it.
Charge(payee, account, amount) ==
    <<"2025-01-10 * \"" \o payee \o "\" \"\"\n",
      "  " \o account \o " " \o amount \o " CAD\n",
      "  Liabilities:CardA -" \o amount \o " CAD\n">>

\* The statement files a session starts from: three transactions with a blank
\* line after each, and the same with no blank line before the last one.
SessionStatements ==
    { Charge("COSTCO WHOLESALE #123", "Expenses:Food", "50.00") \o <<"\n">>
      \o Charge("SHELL C01234", "Expenses:Car:Gas", "30.00") \o <<"\n">>
      \o Charge("ALDI 45", "Expenses:Food", "20.00"),
      Charge("COSTCO WHOLESALE #123", "Expenses:Food", "50.00") \o <<"\n">>
      \o Charge("SHELL C01234", "Expenses:Car:Gas", "30.00")
      \o Charge("ALDI 45", "Expenses:Food", "20.00") }

SessionReceipt(merchant, total, items) ==
    [merchant |-> merchant, date |-> [y |-> 2025, m |-> 1, d |-> 10],
     date_is_placeholder |-> FALSE, total |-> total, items |-> items, tax |-> NoneDec,
     raw_text |-> "", image_filename |-> "receipt.jpg", warnings |-> <<>>]

\* list_approved_receipts(): the files of receipts/approved/, sorted by name,
\* with the receipt each one was saved from.  The third is a second scan of
\* the second purchase and the fifth a second scan of the fourth (their names
\* got the collision suffix).
CostcoItems ==
    << Item("BANANA", 300, 2, Some("Expenses:Food:Produce")),
       Item("BREAD", 500, 1, Some("Expenses:Food:Bakery")) >>

ApprovedReceipts ==
    << [name |-> "2025-01-10_aldi_20_00.beancount",
        receipt |-> SessionReceipt("ALDI", 2000, <<Item("BREAD", 500, 1, Some("Expenses:Food:Bakery"))>>)],
       [name |-> "2025-01-10_costco_50_00.beancount",
        receipt |-> SessionReceipt("COSTCO", 5000, CostcoItems)],
       [name |-> "2025-01-10_costco_50_00_1.beancount",
        receipt |-> SessionReceipt("COSTCO", 5000, CostcoItems)],
       [name |-> "2025-01-10_shell_30_00.beancount",
        receipt |-> SessionReceipt("SHELL", 3000, <<>>)],
       [name |-> "2025-01-10_shell_30_00_1.beancount",
        receipt |-> SessionReceipt("SHELL", 3000, <<>>)] >>

\* parse_receipt_from_beancount(path) for an approved file: the file holds
\* what format_parsed_receipt wrote for its receipt.
ApprovedReceipt(name) ==
    parse_receipt_from_beancount(
        format_parsed_receipt(
            ApprovedReceipts[CHOOSE k \in 1..Len(ApprovedReceipts) :
                                ApprovedReceipts[k].name = name].receipt,
            CreditCardAccount, NoneStr))

\* What identifies a ledger transaction through the edits of a session: the
\* enriched copy keeps the date and the payee of the transaction it replaces.
TxnId(txn) == <<txn.day, txn.payee>>

\* cmd_match up to its first prompt (lines 126-166), on the files fs with the
\* receipts of matched/ given: the ledger is loaded, the receipts of
\* approved/ are listed and the counters start from zero.
SessionStart(fs, archived) ==
    [pc |-> "select_receipts", fs |-> fs,
     transactions |-> load(fs).entries,
     approved |-> {ApprovedReceipts[k].name : k \in 1..Len(ApprovedReceipts)},
     archived |-> archived, selected |-> <<>>,
     idx |-> 1, used |-> {}, matches |-> <<>>, available |-> <<>>,
     selected_idx |-> 0, matched_count |-> 0, skipped_count |-> 0,
     stopped_early |-> FALSE, show_used |-> FALSE, applied |-> {},
     report |-> ""]

InitSession ==
    /\ \E lines \in SessionStatements : sess = SessionStart(StatementPath :> lines, {})
    /\ statement = <<>>
    /\ enriched = [p \in Paths |-> NoFile]
    /\ ledgerBroken = FALSE
    /\ last = NoCall
    /\ enr = [pc |-> "idle"]
    /\ mt = [pc |-> "idle"]
    /\ rt = [pc |-> "idle"]
    /\ cat = [pc |-> "idle"]
    /\ ocr = [pc |-> "idle"]
    /\ grp = [pc |-> "idle"]
    /\ acct = [pc |-> "idle"]
    /\ svc = [pc |-> "idle"]
    /\ dates = [pc |-> "idle"]

\* _select_receipts_for_match: one receipt, all of them, or quit
SelectReceiptsForMatch(choice) ==
    /\ sess.pc = "select_receipts"
    /\ sess' = IF choice = "q" THEN [sess EXCEPT !.pc = "done", !.report = "Cancelled."]
               ELSE [sess EXCEPT
                       !.pc = "receipt",
                       !.selected =
                           IF choice = "a"
                           THEN [k \in 1..Len(ApprovedReceipts) |-> ApprovedReceipts[k].name]
                           ELSE <<ApprovedReceipts[StrToInt(choice)].name>>]
    /\ UNCHANGED <<statement, enriched, ledgerBroken, last, mt, rt, cat, ocr, grp, acct, svc, dates, enr>>

NextReceipt(s) == [s EXCEPT !.pc = "receipt", !.idx = @ + 1]

Skipped(s) == [NextReceipt(s) EXCEPT !.skipped_count = @ + 1]

\* print(message): the last line printed about the receipt in hand
Said(s, message) == [s EXCEPT !.report = message]

\* The steps of a session at which the file system may raise OSError: those
\* of apply_receipt_match, and the rename of move_to_matched.
SessionFaults == Faults \cup {"move_to_matched"}

\* Lines 175-203: what the operator is asked next, given the matches and the
\* ones whose key is not in used_matches.
Available(s, matches, available_matches) ==
    LET offered == [s EXCEPT !.matches = matches, !.available = available_matches,
                             !.show_used = FALSE, !.selected_idx = 0, !.report = ""]
    IN IF available_matches = <<>> /\ matches # <<>> THEN [offered EXCEPT !.pc = "reuse"]
       ELSE IF matches = <<>>
            THEN Said(Skipped(offered), "No matches found - keeping in approved")
       ELSE [offered EXCEPT !.pc = "select"]

Matches(s, matches) ==
    Available(s, matches, SelectSeq(matches, LAMBDA m : match_key(m) \notin s.used))

\* The head of the loop (lines 168-211): the receipt is parsed and matched,
\* the candidates whose key is in used_matches are set aside, and the
\* operator is asked.
BeginReceipt ==
    /\ sess.pc = "receipt"
    /\ sess.idx <= Len(sess.selected)
    /\ sess' = Matches(sess, match_receipt_to_transactions(
                                 ApprovedReceipt(sess.selected[sess.idx]), sess.transactions))
    /\ UNCHANGED <<statement, enriched, ledgerBroken, last, mt, rt, cat, ocr, grp, acct, svc, dates, enr>>

\* The loop is over (lines 293-296).
EndSession ==
    /\ sess.pc = "receipt"
    /\ sess.idx > Len(sess.selected)
    /\ sess' = [sess EXCEPT !.pc = "done", !.report = "Done."]
    /\ UNCHANGED <<statement, enriched, ledgerBroken, last, mt, rt, cat, ocr, grp, acct, svc, dates, enr>>

\* "All candidates were already used in this run." (lines 177-196)
ReuseChoice(reuse_choice) ==
    /\ sess.pc = "reuse"
    /\ sess' = IF reuse_choice = "s" THEN Said(Skipped(sess), "Skipped")
               ELSE IF reuse_choice = "q"
                    THEN [sess EXCEPT !.pc = "done", !.stopped_early = TRUE,
                                      !.report = "Stopping matching session."]
               ELSE [sess EXCEPT !.pc = "select", !.available = sess.matches,
                                 !.show_used = TRUE]
    /\ UNCHANGED <<statement, enriched, ledgerBroken, last, mt, rt, cat, ocr, grp, acct, svc, dates, enr>>

\* available_matches[:5]
display_matches(s) == SubSeq(s.available, 1, Min(5, Len(s.available)))

\* "Matched! Transaction {action_msg}." (lines 277-278)
MatchedMessage(status) ==
    "Matched! Transaction "
    \o (IF status = "already_applied" THEN "already applied; receipt archived" ELSE "applied")

\* Lines 276-288: the receipt is archived, the match counted and its key
\* recorded, and the ledger is loaded again.
Reloaded(s, name, match, fs, reloaded) ==
    [s EXCEPT !.fs = fs,
              !.approved = @ \ {name},
              !.archived = @ \cup {name},
              !.matched_count = @ + 1,
              !.used = @ \cup {match_key(match)},
              !.applied = @ \cup {TxnId(match.transaction)},
              !.stopped_early = reloaded.errors,
              !.transactions = IF reloaded.errors THEN @ ELSE reloaded.entries,
              !.pc = IF reloaded.errors THEN "done" ELSE "receipt",
              !.idx = @ + 1]

\* Lines 276-291 after the call r of apply_receipt_match, with the files as
\* the call left them: an exception of the call or of move_to_matched is
\* caught at line 289, printed, and the receipt counted as skipped.
Applied(s, name, match, enriched_path, r, fault) ==
    LET fs == IF r.enriched.exists
              THEN (enriched_path :> SplitLinesKeep(r.enriched.text))
                   @@ (match.file_path :> r.statement) @@ s.fs
              ELSE [p \in DOMAIN s.fs \ {enriched_path} |->
                      IF p = match.file_path THEN r.statement ELSE s.fs[p]]
    IN IF r.status = "raised"
       THEN Said([Skipped(s) EXCEPT !.fs = fs], "Failed to apply match: " \o r.error)
       ELSE IF fault = "move_to_matched"
            THEN Said([Skipped(s) EXCEPT !.fs = fs], "Failed to apply match: OSError")
       ELSE Said(Reloaded(s, name, match, fs, load(fs)), MatchedMessage(r.status))

\* ledger_writer.apply_receipt_match(...) on the files of the session (lines
\* 266-274): the enriched files are the ones below the matched file's
\* directory, and the validation loads the ledger as the call has written it.
ApplyEnriched(fs, match, include_rel, name, enriched_content, fault) ==
    apply_receipt_match(
        fs[match.file_path],
        [q \in Paths |->
            IF Dir(match.file_path) \o q \in DOMAIN fs
            THEN File(Join(fs[Dir(match.file_path) \o q])) ELSE NoFile],
        load((match.file_path :>
                 replace_transaction_with_include(fs[match.file_path], match.line_number,
                                                  include_rel, name).lines)
             @@ (Dir(match.file_path) \o include_rel :> SplitLinesKeep(enriched_content))
             @@ fs).errors,
        match.line_number, include_rel, name, enriched_content, fault)

\* Lines 240-274 for the receipt file `name` and the chosen match.
ApplyMatch(s, name, receipt, match, include_rel, fault) ==
    IF match.file_path = "unknown" \/ match.file_path \notin DOMAIN s.fs
    THEN Said(Skipped(s), "Match target file missing")
    ELSE IF /\ ~transaction_charge_amount(match).none
            /\ transaction_charge_amount(match).v - itemized_receipt_total(receipt) < -1
         THEN Said(Skipped(s), "Failed to apply match: itemized receipt total exceeds card transaction")
    ELSE Applied(s, name, match, Dir(match.file_path) \o include_rel,
                 ApplyEnriched(s.fs, match, include_rel, name,
                               JoinNL(format_enriched_transaction(receipt, match)), fault),
                 fault)

\* Lines 230-291: the chosen candidate is applied, the receipt archived, the
\* key recorded and the ledger loaded again.
ApplySelected(s, fault) ==
    ApplyMatch(s, s.selected[s.idx], ApprovedReceipt(s.selected[s.idx]),
               display_matches(s)[s.selected_idx],
               "_enriched/" \o Stem(s.selected[s.idx]) \o "-enriched.beancount", fault)

\* [str(i) for i in range(1, len(display_matches) + 1)] + ["s", "d", "q"]
valid_choices(s) == {IntToStr(i) : i \in 1..Len(display_matches(s))} \cup {"s", "d", "q"}

\* The answer to "Select:" (lines 213-238): a candidate, skip, delete, quit.
Select(choice, fault) ==
    /\ sess.pc = "select"
    /\ choice \in valid_choices(sess)
    /\ sess' = IF choice = "d"
               THEN [NextReceipt(sess) EXCEPT !.approved = @ \ {sess.selected[sess.idx]},
                                              !.report = "Deleted"]
               ELSE IF choice = "s" THEN Said(Skipped(sess), "Skipped")
               ELSE IF choice = "q"
                    THEN [sess EXCEPT !.pc = "done", !.stopped_early = TRUE,
                                      !.report = "Stopping matching session."]
               ELSE IF match_key(display_matches(sess)[StrToInt(choice)]) \in sess.used
                    THEN [sess EXCEPT !.pc = "confirm", !.selected_idx = StrToInt(choice)]
                    ELSE ApplySelected([sess EXCEPT !.selected_idx = StrToInt(choice)], fault)
    /\ UNCHANGED <<statement, enriched, ledgerBroken, last, mt, rt, cat, ocr, grp, acct, svc, dates, enr>>

\* "Candidate already used earlier. Reuse it? [y/N]" (lines 233-238): every
\* answer but y and yes skips the receipt.
ConfirmReuse(confirm, fault) ==
    /\ sess.pc = "confirm"
    /\ sess' = IF confirm \in {"y", "yes"} THEN ApplySelected(sess, fault)
               ELSE Said(Skipped(sess), "Skipped")
    /\ UNCHANGED <<statement, enriched, ledgerBroken, last, mt, rt, cat, ocr, grp, acct, svc, dates, enr>>

NextSession ==
    \/ \E choice \in {"q", "a", "1", "2", "3", "4", "5"} : SelectReceiptsForMatch(choice)
    \/ BeginReceipt
    \/ EndSession
    \/ \E reuse_choice \in {"s", "q", "u"} : ReuseChoice(reuse_choice)
    \/ \E choice \in {"s", "d", "q", "1", "2", "3", "4", "5"}, fault \in SessionFaults :
          Select(choice, fault)
    \/ \E confirm \in {"y", "n", "q"}, fault \in SessionFaults : ConfirmReuse(confirm, fault)

SpecSession == InitSession /\ [][NextSession]_vars

\* C6: while the candidates of a receipt are on offer, the ones held back as
\* "already used" are exactly the transactions applied earlier in the session:
\* a candidate's key is in used_matches if and only if its transaction was
\* applied, and an applied transaction is among the available candidates only
\* after the operator asked to see the used ones.
C6_UsedKeysAreTheAppliedTransactions ==
    sess.pc \in {"reuse", "select", "confirm"}
        => /\ \A k \in 1..Len(sess.matches) :
                 match_key(sess.matches[k]) \in sess.used
                     <=> TxnId(sess.matches[k].transaction) \in sess.applied
           /\ \A k \in 1..Len(sess.available) :
                 TxnId(sess.available[k].transaction) \in sess.applied => sess.show_used

\* The operator enters quit at one of the prompts of the session.
QuitEntered ==
    \/ SelectReceiptsForMatch("q")
    \/ ReuseChoice("q")
    \/ \E fault \in SessionFaults : Select("q", fault)
    \/ \E fault \in SessionFaults : ConfirmReuse("q", fault)

\* C21: quit entered at any prompt ends the session, the remaining receipts
\* are not processed, and what the session committed before stays: the
\* ledger files, the enriched files and the archived receipts are as they
\* were.
C21_QuitEndsSessionKeepsCommitted ==
    [][QuitEntered =>
          /\ sess'.pc = "done"
          /\ sess'.fs = sess.fs
          /\ sess'.archived = sess.archived
          /\ sess'.approved = sess.approved
          /\ sess'.matched_count = sess.matched_count]_vars

\* The step reports that applying the selected match failed.
ApplyFailed ==
    /\ sess.pc \in {"select", "confirm"}
    /\ StartsWith(sess'.report, "Failed to apply match: ")

\* C22: a failure to apply the selected match touches that receipt only: the
\* ledger files are as they were before the attempt and the session goes on
\* to the next receipt.
C22_FailedApplyLeavesLedgerAndGoesOn ==
    [][ApplyFailed =>
          /\ sess'.fs = sess.fs
          /\ sess'.pc = "receipt"
          /\ sess'.idx = sess.idx + 1
          /\ sess'.stopped_early = sess.stopped_early]_vars

\* The include directive of the receipt file `name` is in a file of the
\* ledger: its mutation is committed.
Committed(fs, name) ==
    \E f \in DOMAIN fs :
        ActiveInclude(fs[f], "_enriched/" \o Stem(name) \o "-enriched.beancount")

\* C27: a receipt is in matched/ and counted as matched exactly when its
\* ledger mutation is committed: none is archived without its include
\* directive in the ledger, and none whose include directive is in the
\* ledger stays in approved/.
C27_ArchivedIffCommitted ==
    /\ \A k \in 1..Len(ApprovedReceipts) :
           /\ ApprovedReceipts[k].name \in sess.archived
                  <=> Committed(sess.fs, ApprovedReceipts[k].name)
           /\ Committed(sess.fs, ApprovedReceipts[k].name)
                  => ApprovedReceipts[k].name \notin sess.approved
    /\ sess.matched_count = Cardinality(sess.archived)

\* ---- A session after an earlier one ----
\* The ledger of a card on which two purchases at the same merchant were
\* charged the same amount, before any receipt was matched.
EarlierStatement ==
    Charge("COSTCO WHOLESALE #123", "Expenses:Food", "50.00") \o <<"\n">>
    \o Charge("COSTCO WHOLESALE #456", "Expenses:Food", "50.00") \o <<"\n">>
    \o Charge("SHELL C01234", "Expenses:Car:Gas", "30.00")
    \o Charge("ALDI 45", "Expenses:Food", "20.00")

EarlierReceipt == "2025-01-10_costco_50_00.beancount"

\* The candidate an earlier session applied: the first charge of the file.
EarlierMatch(matches) ==
    matches[CHOOSE k \in 1..Len(matches) : matches[k].line_number = 1]

\* The files that session left (cmd_match lines 259-276): the receipt
\* EarlierReceipt applied to the candidate `match` and moved to matched/.
EarlierFiles(s, match) ==
    ApplyMatch(s, EarlierReceipt, ApprovedReceipt(EarlierReceipt), match,
               "_enriched/" \o Stem(EarlierReceipt) \o "-enriched.beancount", "none").fs

\* The next session: the second purchase has been scanned and approved since,
\* and save_approved_receipt (lines 71-97), which looks for a free name in
\* approved/ only, gave its file the name of the receipt now in matched/.
InitSessions ==
    /\ \E s \in {SessionStart(StatementPath :> EarlierStatement, {})} :
       \E match \in {EarlierMatch(match_receipt_to_transactions(ApprovedReceipt(EarlierReceipt),
                                                                 s.transactions))} :
       \E fs \in {EarlierFiles(s, match)} :
          sess = SessionStart(fs, {EarlierReceipt})
    /\ statement = <<>>
    /\ enriched = [p \in Paths |-> NoFile]
    /\ ledgerBroken = FALSE
    /\ last = NoCall
    /\ enr = [pc |-> "idle"]
    /\ mt = [pc |-> "idle"]
    /\ rt = [pc |-> "idle"]
    /\ cat = [pc |-> "idle"]
    /\ ocr = [pc |-> "idle"]
    /\ grp = [pc |-> "idle"]
    /\ acct = [pc |-> "idle"]
    /\ svc = [pc |-> "idle"]
    /\ dates = [pc |-> "idle"]

SpecSessions == InitSessions /\ [][NextSession]_vars

\* The step reports a match as applied or as already applied and archived.
ReportsMatched ==
    /\ sess.pc \in {"select", "confirm"}
    /\ StartsWith(sess'.report, "Matched!")

\* The enriched file of the match a step applies (line 262).
EnrichedPathOf(s, match) ==
    Dir(match.file_path) \o "_enriched/" \o Stem(s.selected[s.idx]) \o "-enriched.beancount"

\* C26: a match reported as applied or archived writes an enriched file no
\* earlier match wrote, and leaves the selected transaction replaced by an
\* include of that file, which holds the enriched transaction generated for
\* this receipt and this transaction.
C26_EnrichedFileOwnedByItsMatch ==
    [][ReportsMatched =>
         \E match \in {display_matches(sess)[sess'.selected_idx]} :
         \E receipt \in {ApprovedReceipt(sess.selected[sess.idx])} :
         \E path \in {EnrichedPathOf(sess, match)} :
            /\ path \notin DOMAIN sess.fs
            /\ path \in DOMAIN sess'.fs
            /\ sess'.fs[path]
                 = SplitLinesKeep(JoinNL(format_enriched_transaction(receipt, match)))
            /\ ActiveInclude(sess'.fs[match.file_path],
                             "_enriched/" \o Stem(sess.selected[sess.idx]) \o "-enriched.beancount")
            /\ \A k \in 1..Len(sess'.fs[match.file_path]) :
                  sess'.fs[match.file_path][k] # sess.fs[match.file_path][match.line_number]]_vars


----------------------------------------------------------------------------
(* Further claims about the ledger writer, checked under SpecWriter.       *)

\* C19: a call aimed at a `*` transaction of a statement file that holds the
\* text include "<enriched path>" only inside comment lines, with no I/O or
\* validation error, replaces the transaction: the result is "applied" and
\* the file holds an active include directive afterwards.
C19_CommentedIncludeIsIgnored ==
    ( /\ last.called
      /\ last.valid_target
      /\ TXN_START_RE(LStrip(last.pre_statement[last.line_number]))
      /\ TextContains(last.pre_statement, IncludePrefix(WriterPath)) )
        => /\ last.status = "applied"
           /\ ActiveInclude(statement, WriterPath)

\* C20: a call aimed at a transaction start line with a flag other than `*`
\* (YYYY-MM-DD ! "payee" "narration"), with no I/O or validation error,
\* replaces the transaction: the result is "applied" and the file holds the
\* include directive afterwards.
C20_NonStarFlagAccepted ==
    ( /\ last.called
      /\ last.valid_target
      /\ ~TextContains(last.pre_statement, IncludePrefix(WriterPath))
      /\ ~TXN_START_RE(LStrip(last.pre_statement[last.line_number])) )
        => /\ last.status = "applied"
           /\ ActiveInclude(statement, WriterPath)

----------------------------------------------------------------------------
(* Further claims about the serialized draft, checked under SpecRoundTrip. *)

\* C13: the serialized draft holds a balancing "unaccounted" posting exactly
\* when the item postings plus tax do not sum to the stated total; there is
\* one such posting, on Expenses:FIXME, and its amount is the difference.
C13_UnaccountedPostingIffDifference ==
    rt.pc \in {"saved", "parsed"}
        => LET diff == rt.receipt.total
                       - (SumPrices(rt.receipt.items)
                          + (IF rt.receipt.tax.none THEN 0 ELSE rt.receipt.tax.v))
               balancing == {i \in 1..Len(rt.content) :
                               Contains(rt.content[i], "FIXME: unaccounted amount")}
           IN IF diff = 0 THEN balancing = {}
              ELSE /\ Cardinality(balancing) = 1
                   /\ \A i \in balancing :
                         /\ StartsWith(rt.content[i], "  Expenses:FIXME ")
                         /\ Contains(rt.content[i], " " \o Fmt2(diff) \o " CAD")


----------------------------------------------------------------------------
(* receipt/item_categories.py: the rule layers, the fuzzy search of a      *)
(* keyword in a description, and the scoring of the matches.  Similarities *)
(* and thresholds are exact fractions.                                     *)

FUZZY_THRESHOLD_SHORT == Frac(3, 4)
FUZZY_THRESHOLD_MEDIUM == Frac(4, 5)
FUZZY_THRESHOLD_LONG == Frac(7, 10)
EXACT_MATCH_BONUS == 1000
PRIORITY_SCORE_MULTIPLIER == 10000

\* Built-in rules: (keywords, target), priority 0.  Both lists are empty.
ITEM_RULES == <<>>
COSTCO_RULES == <<>>
EXACT_ONLY_KEYWORDS == {}

\* The entries of DEFAULT_CATEGORY_ACCOUNTS that the rules below name.
DEFAULT_CATEGORY_ACCOUNTS ==
    [key \in {"grocery_dairy", "grocery_drink", "grocery_meat", "grocery_snacks",
              "grocery_staple"} |->
        CASE key = "grocery_dairy" -> "Expenses:Food:Grocery:Dairy"
          [] key = "grocery_meat" -> "Expenses:Food:Grocery:Meat"
          [] key = "grocery_drink" -> "Expenses:Food:Grocery:Drink"
          [] key = "grocery_snacks" -> "Expenses:Food:Grocery:Snacks"
          [] key = "grocery_staple" -> "Expenses:Food:Grocery:Staple"]

\* s.replace(" ", "")
RECURSIVE RemoveSpaces(_)
RemoveSpaces(s) ==
    IF Len(s) <= 1 THEN (IF s = " " THEN "" ELSE s)
    ELSE RemoveSpaces(SubSeq(s, 1, Len(s) \div 2))
         \o RemoveSpaces(SubSeq(s, Len(s) \div 2 + 1, Len(s)))

\* _normalize_keywords(raw) for a list of strings
normalize_keywords(raw) ==
    SelectSeq([k \in 1..Len(raw) |-> Strip(raw[k])], LAMBDA v : v # "")

\* The rules of the classifier config of layer idx (lines 119-131)
LayerRules(config, idx) ==
    LET usable == SelectSeq(config.rules,
                            LAMBDA rule : /\ normalize_keywords(rule.keywords) # <<>>
                                          /\ Strip(rule.key) # "")
    IN [k \in 1..Len(usable) |->
          [keywords |-> normalize_keywords(usable[k].keywords),
           category |-> Strip(usable[k].key),
           priority |-> usable[k].priority + idx * 100]]

\* The exact-only keywords of one classifier config (lines 113-116, 133-134)
LayerExactOnly(config) ==
    ({Strip(config.exact_only_keywords[k]) : k \in 1..Len(config.exact_only_keywords)} \ {""})
    \cup UNION {{normalize_keywords(config.rules[k].keywords)[j] :
                    j \in 1..Len(normalize_keywords(config.rules[k].keywords))} :
                k \in {k \in 1..Len(config.rules) :
                         /\ config.rules[k].exact_only
                         /\ normalize_keywords(config.rules[k].keywords) # <<>>
                         /\ Strip(config.rules[k].key) # ""}}

RECURSIVE AllLayerRules(_, _)
AllLayerRules(classifier_configs, idx) ==
    IF idx > Len(classifier_configs) THEN <<>>
    ELSE LayerRules(classifier_configs[idx], idx) \o AllLayerRules(classifier_configs, idx + 1)

RECURSIVE MergedAccounts(_, _)
MergedAccounts(account_configs, n) ==
    IF n = 0 THEN DEFAULT_CATEGORY_ACCOUNTS
    ELSE account_configs[n] @@ MergedAccounts(account_configs, n - 1)

\* build_item_category_rule_layers(classifier_configs, account_configs)
build_item_category_rule_layers(classifier_configs, account_configs) ==
    [rules |-> [k \in 1..Len(ITEM_RULES \o COSTCO_RULES) |->
                   [keywords |-> (ITEM_RULES \o COSTCO_RULES)[k][1],
                    category |-> (ITEM_RULES \o COSTCO_RULES)[k][2],
                    priority |-> 0]]
               \o AllLayerRules(classifier_configs, 1),
     exact_only_keywords |->
         EXACT_ONLY_KEYWORDS \cup UNION {LayerExactOnly(classifier_configs[k]) : k \in 1..Len(classifier_configs)},
     account_mapping |-> MergedAccounts(account_configs, Len(account_configs))]

\* re.search(r"\b" + re.escape(kw) + r"\b", s): match.start(), -1 without a match
WordSearch(kw, s) ==
    LET word(i) == i >= 1 /\ i <= Len(s) /\ IsWordChar(Ch(s, i))
        hits == {i \in 1..(Len(s) - Len(kw) + 1) :
                    /\ SubSeq(s, i, i + Len(kw) - 1) = kw
                    /\ word(i - 1) # word(i)
                    /\ word(i + Len(kw) - 1) # word(i + Len(kw))}
    IN IF hits = {} THEN -1 ELSE (CHOOSE i \in hits : \A j \in hits : i <= j) - 1

Bigrams(s) == {SubSeq(s, i, i + 1) : i \in 1..(Len(s) - 1)}

\* _bigram_similarity(s1, s2)
bigram_similarity(s1, s2) ==
    IF Len(s1) < 2 THEN (IF Contains(s2, s1) THEN One ELSE Zero)
    ELSE Frac(Cardinality(Bigrams(s1) \cap Bigrams(s2)), Cardinality(Bigrams(s1)))

\* _get_threshold(kw_len)
get_threshold(kw_len) ==
    IF kw_len <= 4 THEN FUZZY_THRESHOLD_SHORT
    ELSE IF kw_len <= 6 THEN FUZZY_THRESHOLD_MEDIUM
    ELSE FUZZY_THRESHOLD_LONG

NotContained == [matched |-> FALSE, position |-> -1, is_exact |-> FALSE]

\* The first start with the greatest similarity is a match when that
\* similarity reaches the threshold (lines 247-262).
BestWindow(similarity, threshold) ==
    LET starts == DOMAIN similarity
        best == CHOOSE a \in starts :
                   \A b \in starts : /\ FLeq(similarity[b], similarity[a])
                                     /\ b < a => FLt(similarity[b], similarity[a])
    IN IF starts = {} THEN NotContained
       ELSE IF FLt(Zero, similarity[best]) /\ FLeq(threshold, similarity[best])
            THEN [matched |-> TRUE, position |-> best, is_exact |-> FALSE]
       ELSE NotContained

\* The sliding window of _fuzzy_contains (lines 243-262) over desc for kw
FuzzyWindow(kw, desc, threshold) ==
    BestWindow([start \in 0..(Len(desc) - Len(kw) + 1) |->
                   bigram_similarity(kw, SubSeq(desc, start + 1,
                                                Min(Len(desc), start + Len(kw) + 1)))],
               threshold)

\* _fuzzy_contains(keyword, description, threshold): threshold is None or 1.0
fuzzy_contains(keyword, description, threshold) ==
    LET desc_raw == Upper(description)
        kw_raw == Strip(Upper(keyword))
        desc == RemoveSpaces(desc_raw)
        kw == RemoveSpaces(kw_raw)
    IN IF Len(kw) <= 3
       THEN IF WordSearch(kw_raw, desc_raw) # -1
            THEN [matched |-> TRUE, position |-> WordSearch(kw_raw, desc_raw), is_exact |-> TRUE]
            ELSE NotContained
       ELSE IF Find(desc, kw) # 0
            THEN [matched |-> TRUE, position |-> Find(desc, kw) - 1, is_exact |-> TRUE]
       ELSE IF ~threshold.none /\ FLeq(One, threshold.v) THEN NotContained
       ELSE FuzzyWindow(kw, desc, IF threshold.none THEN get_threshold(Len(kw)) ELSE threshold.v)

\* The tuple (score, category, kw, position) appended for a matched keyword
\* (lines 284-290), with the rule's priority and is_exact kept beside it.
ScoredMatch(rule, kw, m) ==
    [score |-> Len(RemoveSpaces(kw)) * 10 + m.position
               + rule.priority * PRIORITY_SCORE_MULTIPLIER
               + (IF m.is_exact THEN EXACT_MATCH_BONUS ELSE 0),
     category |-> rule.category, kw |-> kw, position |-> m.position,
     priority |-> rule.priority, is_exact |-> m.is_exact]

\* The inner loop of _find_all_matches: the first keyword of the rule, from
\* the k-th on, that matches; m is the result of _fuzzy_contains for the k-th.
RECURSIVE RuleMatches(_, _, _, _)
RECURSIVE FirstMatch(_, _, _, _, _)
FirstMatch(description, rule, exact_only_keywords, k, m) ==
    IF m.matched THEN <<ScoredMatch(rule, rule.keywords[k], m)>>
    ELSE RuleMatches(description, rule, exact_only_keywords, k + 1)

RuleMatches(description, rule, exact_only_keywords, k) ==
    IF k > Len(rule.keywords) THEN <<>>
    ELSE FirstMatch(description, rule, exact_only_keywords, k,
                    fuzzy_contains(rule.keywords[k], description,
                                   IF rule.keywords[k] \in exact_only_keywords
                                   THEN Some(One) ELSE [none |-> TRUE, v |-> Zero]))

RECURSIVE MatchesFrom(_, _, _, _)
MatchesFrom(description, rules, exact_only_keywords, i) ==
    IF i > Len(rules) THEN <<>>
    ELSE RuleMatches(description, rules[i], exact_only_keywords, 1)
         \o MatchesFrom(description, rules, exact_only_keywords, i + 1)

\* _find_all_matches(description, rules, exact_only_keywords)
find_all_matches(description, rules, exact_only_keywords) ==
    MatchesFrom(description, rules, exact_only_keywords, 1)

\* A sort whose order among equal scores depends on the number of calls made
SortByScoreCallDependent(matches) ==
    LET n == Len(matches)
        before(j, k) == \/ matches[j].score > matches[k].score
                        \/ /\ matches[j].score = matches[k].score
                           /\ IF Len(cat.calls) % 2 = 0 THEN j < k ELSE j > k
    IN [r \in 1..n |->
          matches[CHOOSE k \in 1..n : Cardinality({j \in 1..n : before(j, k)}) + 1 = r]]

\* matches.sort(key=lambda x: x[0], reverse=True): equal scores keep their order
SortByScore(matches) ==
    LET n == Len(matches)
        before(j, k) == \/ matches[j].score > matches[k].score
                        \/ (matches[j].score = matches[k].score /\ j < k)
    IN [r \in 1..n |->
          matches[CHOOSE k \in 1..n : Cardinality({j \in 1..n : before(j, k)}) + 1 = r]]

\* _resolve_account_target(target, account_mapping, default) for a target
\* that is not None
resolve_account_target(target, account_mapping, default) ==
    IF StartsWith(target, "Expenses:") THEN Some(target)
    ELSE IF target \in DOMAIN account_mapping THEN Some(account_mapping[target])
    ELSE default

\* Lines 351-356 of categorize_item, for the matches found
Categorized(matches, account_mapping, default) ==
    IF matches = <<>> THEN default
    ELSE resolve_account_target(SortByScore(matches)[1].category, account_mapping, default)

\* categorize_item(description, default, rule_layers)
categorize_item(description, default, layers) ==
    Categorized(find_all_matches(description, layers.rules, layers.exact_only_keywords),
                layers.account_mapping, default)

(* The categorizer as a state machine: the cached default layers of the    *)
(* process and the calls made so far, with the layers each was given.      *)

MaxCalls == 2

\* s * n
RECURSIVE Repeat(_, _)
Repeat(s, n) ==
    IF n <= 1 THEN (IF n = 1 THEN s ELSE "")
    ELSE Repeat(s, n \div 2) \o Repeat(s, n - n \div 2)

Rule(keywords, key, priority, exact_only) ==
    [keywords |-> keywords, key |-> key, priority |-> priority, exact_only |-> exact_only]

\* Classifier configs as the rule files give them: one list per installation.
LongKeyword == Repeat("X", 104)

BaseRules ==
    [exact_only_keywords |-> <<>>,
     rules |-> << Rule(<<"milk">>, "grocery_dairy", 0, FALSE),
                  Rule(<<"YOGURT", " ">>, "grocery_snacks", 0, FALSE),
                  Rule(<<"TEA">>, "grocery_drink", 0, FALSE),
                  Rule(<<LongKeyword>>, "Expenses:Food:Bulk", 0, FALSE),
                  Rule(<<"MILK">>, "grocery_drink", 0, FALSE),
                  Rule(<<>>, "grocery_staple", 0, FALSE) >>]

OverlayRules ==
    [exact_only_keywords |-> <<"YOGURT">>,
     rules |-> << Rule(<<"TEA">>, "restaurant_tea", 20, TRUE),
                  Rule(<<"CHICKEN", "MILK">>, "grocery_meat", -150, FALSE) >>]

\* The layers a caller passes are built from the rule files, in their order.
ClassifierConfigs == { <<BaseRules, OverlayRules>>, <<OverlayRules, BaseRules>> }

AccountConfigs ==
    << [key \in {"restaurant_tea"} |-> "Expenses:Food:Restaurant"],
       [key \in {"grocery_drink"} |-> "Expenses:Food:Drink"] >>

Descriptions ==
    {"MILK 2%", "YOGOURT MILK", "Green Tea", "TEA " \o Repeat("X", 103), "CHICXKEN"}

NoLayers == [none |-> TRUE, v |-> build_item_category_rule_layers(<<>>, <<>>)]

InitCategorize ==
    /\ cat = [pc |-> "ready", cache |-> NoLayers, calls |-> <<>>]
    /\ statement = <<>>
    /\ enriched = [p \in Paths |-> NoFile]
    /\ ledgerBroken = FALSE
    /\ last = NoCall
    /\ enr = [pc |-> "idle"]
    /\ mt = [pc |-> "idle"]
    /\ rt = [pc |-> "idle"]
    /\ sess = [pc |-> "idle"]
    /\ ocr = [pc |-> "idle"]
    /\ grp = [pc |-> "idle"]
    /\ acct = [pc |-> "idle"]
    /\ svc = [pc |-> "idle"]
    /\ dates = [pc |-> "idle"]

\* _get_default_rule_layers(): the built-in rules alone, built on the first
\* call and cached
get_default_rule_layers ==
    IF cat.cache.none THEN build_item_category_rule_layers(<<>>, <<>>) ELSE cat.cache.v

\* One call categorize_item(description, default, rule_layers), with the
\* matches it ranked kept beside its result.
Ranked(description, default, layers, matches) ==
    [description |-> description, default |-> default, layers |-> layers,
     matches |-> SortByScore(matches),
     category |-> Categorized(matches, layers.account_mapping, default)]

Call(description, default, layers) ==
    Ranked(description, default, layers,
           find_all_matches(description, layers.rules, layers.exact_only_keywords))

CategorizeDefault(description, default) ==
    /\ cat.pc = "ready" /\ Len(cat.calls) < MaxCalls
    /\ cat' = [cat EXCEPT !.cache = Some(get_default_rule_layers),
                          !.calls = Append(@, Call(description, default, get_default_rule_layers))]
    /\ UNCHANGED <<statement, enriched, ledgerBroken, last, mt, rt, sess, ocr, grp, acct, svc, dates, enr>>

CategorizeWith(description, default, configs) ==
    /\ cat.pc = "ready" /\ Len(cat.calls) < MaxCalls
    /\ cat' = [cat EXCEPT !.calls =
                  Append(@, Call(description, default,
                                 build_item_category_rule_layers(configs, AccountConfigs)))]
    /\ UNCHANGED <<statement, enriched, ledgerBroken, last, mt, rt, sess, ocr, grp, acct, svc, dates, enr>>

NextCategorize ==
    \/ \E description \in Descriptions, default \in {NoneStr, Some("Expenses:FIXME")} :
          CategorizeDefault(description, default)
    \/ \E description \in Descriptions, default \in {NoneStr, Some("Expenses:FIXME")},
          configs \in ClassifierConfigs :
          CategorizeWith(description, default, configs)

SpecCategorize == InitCategorize /\ [][NextCategorize]_vars

(* Claims about the categorizer, checked under SpecCategorize. *)

\* C17: among the matches ranked by one call, a match of a higher priority
\* has the higher score, and at equal priority an exact match has a higher
\* score than a fuzzy one, whatever the keyword lengths and positions.
C17_PriorityThenExactOutrank ==
    \A c \in 1..Len(cat.calls) :
        \A a, b \in 1..Len(cat.calls[c].matches) :
            /\ cat.calls[c].matches[a].priority > cat.calls[c].matches[b].priority
                  => cat.calls[c].matches[a].score > cat.calls[c].matches[b].score
            /\ ( /\ cat.calls[c].matches[a].priority = cat.calls[c].matches[b].priority
                 /\ cat.calls[c].matches[a].is_exact
                 /\ ~cat.calls[c].matches[b].is_exact )
                  => cat.calls[c].matches[a].score > cat.calls[c].matches[b].score

----------------------------------------------------------------------------
(* receipt/ocr_helpers.py: the detections of a page are filtered, grouped  *)
(* into lines (a LEFT description with the RIGHT price beside it, MIDDLE   *)
(* detections attached to the nearest line) and joined into text.          *)
(* Coordinates are integers; centres, ratios and thresholds are fractions. *)

OCR_IMAGE_PADDING == 50

FSub(a, b) == FAdd(a, Frac(-b[1], b[2]))
FAbs(a) == Frac(Abs(a[1]), a[2])
FMax(a, b) == IF FLeq(a, b) THEN b ELSE a
FMin(a, b) == IF FLeq(a, b) THEN a ELSE b

\* list.sort(key=...): a stable sort by a strict order on the keys
StableSort(seq, Less(_, _)) ==
    LET n == Len(seq)
        before(j, k) == \/ Less(seq[j], seq[k])
                        \/ (~Less(seq[k], seq[j]) /\ j < k)
    IN [r \in 1..n |->
          seq[CHOOSE k \in 1..n : Cardinality({j \in 1..n : before(j, k)}) + 1 = r]]

\* A raw detection [bbox, (text, confidence)] with the box of _bbox(x0, y0, x1, y1);
\* the confidence is in hundredths.
RawDetection(x0, y0, x1, y1, text, confidence) ==
    [bbox |-> <<x0, y0, x1, y1>>, text |-> text, confidence |-> confidence]

\* The entry of detection_data for a raw detection (lines 290-313)
DetectionData(detection, padding) ==
    [text |-> detection.text,
     confidence |-> detection.confidence,
     center_y |-> Frac(2 * (detection.bbox[2] - padding) + 2 * (detection.bbox[4] - padding), 4),
     y_min |-> Min(detection.bbox[2], detection.bbox[4]) - padding,
     y_max |-> Max(detection.bbox[2], detection.bbox[4]) - padding,
     min_x |-> Min(detection.bbox[1], detection.bbox[3]) - padding]

\* _boxes_overlap_y(det1, det2, min_overlap_ratio)
boxes_overlap_y(det1, det2, min_overlap_ratio) ==
    LET overlap_start == Max(det1.y_min, det2.y_min)
        overlap_end == Min(det1.y_max, det2.y_max)
        smaller_height == Min(det1.y_max - det1.y_min, det2.y_max - det2.y_min)
    IN /\ overlap_start < overlap_end
       /\ smaller_height > 0
       /\ FLeq(min_overlap_ratio, Frac(overlap_end - overlap_start, smaller_height))

\* The column of a detection (lines 172-179)
IsLeft(det, image_width) == det.min_x * 10 < 3 * image_width
IsRight(det, image_width) == ~IsLeft(det, image_width) /\ det.min_x * 10 > 7 * image_width
IsMiddle(det, image_width) == ~IsLeft(det, image_width) /\ ~IsRight(det, image_width)

ByCenterY(a, b) == FLt(a.center_y, b.center_y)

\* The first price that overlaps the item, assigned already or not
FirstPriceAssignedOrNot(left_det, right_items, assigned_prices) ==
    LET found == {ri \in 1..Len(right_items) :
                     boxes_overlap_y(left_det, right_items[ri], Frac(3, 10))}
    IN IF found = {} THEN 0 ELSE CHOOSE ri \in found : \A other \in found : ri <= other

\* The index of the first unassigned price that overlaps the item, 0 if none
\* (lines 198-204)
FirstPrice(left_det, right_items, assigned_prices) ==
    LET found == {ri \in 1..Len(right_items) :
                     /\ ri \notin assigned_prices
                     /\ boxes_overlap_y(left_det, right_items[ri], Frac(3, 10))}
    IN IF found = {} THEN 0 ELSE CHOOSE ri \in found : \A other \in found : ri <= other

\* The loop over the LEFT items (lines 193-212): the lines built and the
\* prices assigned.
RECURSIVE PairLeftItems(_, _, _, _, _)
RECURSIVE PairWith(_, _, _, _, _, _)
PairWith(left_items, right_items, i, assigned_prices, lines, best_price_idx) ==
    IF best_price_idx # 0
    THEN PairLeftItems(left_items, right_items, i + 1,
                       assigned_prices \cup {best_price_idx},
                       Append(lines, <<left_items[i], right_items[best_price_idx]>>))
    ELSE PairLeftItems(left_items, right_items, i + 1, assigned_prices,
                       Append(lines, <<left_items[i]>>))

PairLeftItems(left_items, right_items, i, assigned_prices, lines) ==
    IF i > Len(left_items) THEN [lines |-> lines, assigned_prices |-> assigned_prices]
    ELSE PairWith(left_items, right_items, i, assigned_prices, lines,
                  FirstPrice(left_items[i], right_items, assigned_prices))

\* The unassigned RIGHT items as lines of their own (lines 215-217)
OrphanPrices(right_items, assigned_prices) ==
    LET orphans == SelectSeq([ri \in 1..Len(right_items) |-> ri],
                             LAMBDA ri : ri \notin assigned_prices)
    IN [k \in 1..Len(orphans) |-> <<right_items[orphans[k]]>>]

\* _adaptive_middle_y_threshold(detections)
adaptive_middle_y_threshold(detections) ==
    LET heights == StableSort(
                       SelectSeq([k \in 1..Len(detections) |->
                                     detections[k].y_max - detections[k].y_min],
                                 LAMBDA h : h > 0),
                       LAMBDA a, b : a < b)
    IN IF heights = <<>> THEN Frac(24, 1)
       ELSE FMax(Frac(12, 1),
                 FMin(Frac(30, 1), Frac(heights[Len(heights) \div 2 + 1] * 4, 5)))

\* _line_y_span(line)
line_y_span(line) ==
    <<CHOOSE y \in {line[k].y_min : k \in 1..Len(line)} :
          \A k \in 1..Len(line) : y <= line[k].y_min,
      MaxOf({line[k].y_max : k \in 1..Len(line)})>>

RECURSIVE SumCenterY(_)
SumCenterY(line) == IF line = <<>> THEN Zero ELSE FAdd(line[1].center_y, SumCenterY(Tail(line)))

\* _line_center_y(line)
line_center_y(line) == FMul(SumCenterY(line), Frac(1, Len(line)))

\* _line_overlap_ratio(det, line), for boxes and spans of positive height
line_overlap_ratio(det, line) ==
    LET overlap_start == Max(det.y_min, line_y_span(line)[1])
        overlap_end == Min(det.y_max, line_y_span(line)[2])
    IN IF overlap_start >= overlap_end THEN Zero
       ELSE Frac(overlap_end - overlap_start,
                 Min(det.y_max - det.y_min, line_y_span(line)[2] - line_y_span(line)[1]))

\* _distance_to_line_span(det, line)
distance_to_line_span(det, line) ==
    IF /\ FLeq(Frac(line_y_span(line)[1], 1), det.center_y)
       /\ FLeq(det.center_y, Frac(line_y_span(line)[2], 1))
    THEN Zero
    ELSE IF FLt(det.center_y, Frac(line_y_span(line)[1], 1))
         THEN FSub(Frac(line_y_span(line)[1], 1), det.center_y)
    ELSE FSub(det.center_y, Frac(line_y_span(line)[2], 1))

\* The score tuple of a line for a MIDDLE detection (lines 234-238)
MiddleScore(mid_det, line) ==
    <<IF FLeq(Frac(1, 4), line_overlap_ratio(mid_det, line)) THEN 0 ELSE 1,
      distance_to_line_span(mid_det, line),
      FAbs(FSub(mid_det.center_y, line_center_y(line)))>>

\* score < best_score, on the tuples
ScoreLess(a, b) ==
    \/ a[1] < b[1]
    \/ a[1] = b[1] /\ FLt(a[2], b[2])
    \/ a[1] = b[1] /\ a[2] = b[2] /\ FLt(a[3], b[3])

\* The line a MIDDLE detection joins, 0 if none (lines 222-242)
BestLine(mid_det, lines, y_threshold) ==
    LET eligible == {idx \in 1..Len(lines) :
                        \/ FLeq(Frac(1, 4), line_overlap_ratio(mid_det, lines[idx]))
                        \/ FLeq(FAbs(FSub(mid_det.center_y, line_center_y(lines[idx]))),
                                y_threshold)}
    IN IF eligible = {} THEN 0
       ELSE CHOOSE idx \in eligible :
               \A other \in eligible :
                   /\ ~ScoreLess(MiddleScore(mid_det, lines[other]), MiddleScore(mid_det, lines[idx]))
                   /\ other < idx => ScoreLess(MiddleScore(mid_det, lines[idx]),
                                               MiddleScore(mid_det, lines[other]))

\* The loop over the MIDDLE items (lines 222-247)
RECURSIVE PlaceMiddleItems(_, _, _, _)
RECURSIVE PlaceIn(_, _, _, _, _)
PlaceIn(middle_items, k, lines, y_threshold, best_line_idx) ==
    PlaceMiddleItems(middle_items, k + 1,
                     IF best_line_idx # 0
                     THEN [lines EXCEPT ![best_line_idx] = Append(@, middle_items[k])]
                     ELSE Append(lines, <<middle_items[k]>>),
                     y_threshold)

PlaceMiddleItems(middle_items, k, lines, y_threshold) ==
    IF k > Len(middle_items) THEN lines
    ELSE PlaceIn(middle_items, k, lines, y_threshold,
                 BestLine(middle_items[k], lines, y_threshold))

\* Lines 249-254: each line sorted by min_x, the lines by their average centre
SortLines(lines) ==
    StableSort([k \in 1..Len(lines) |-> StableSort(lines[k], LAMBDA a, b : a.min_x < b.min_x)],
               LAMBDA a, b : FLt(line_center_y(a), line_center_y(b)))

\* Lines 214-247, from the result of the loop over the LEFT items
GroupRest(detections, image_width, paired, right_items) ==
    SortLines(PlaceMiddleItems(SelectSeq(detections, LAMBDA det : IsMiddle(det, image_width)), 1,
                               paired.lines \o OrphanPrices(right_items, paired.assigned_prices),
                               adaptive_middle_y_threshold(detections)))

\* Lines 185-212, for the sorted RIGHT items
GroupLeft(detections, image_width, right_items) ==
    GroupRest(detections, image_width,
              PairLeftItems(StableSort(SelectSeq(detections, LAMBDA det : IsLeft(det, image_width)),
                                       ByCenterY),
                            right_items, 1, {}, <<>>),
              right_items)

\* _group_detections_by_y_overlap(detections, image_width)
group_detections_by_y_overlap(detections, image_width) ==
    IF detections = <<>> THEN <<>>
    ELSE GroupLeft(detections, image_width,
                   StableSort(SelectSeq(detections, LAMBDA det : IsRight(det, image_width)),
                              ByCenterY))

\* " ".join(str(w["text"]) for w in words)
RECURSIVE JoinSpace(_)
JoinSpace(parts) ==
    IF parts = <<>> THEN ""
    ELSE IF Len(parts) = 1 THEN parts[1]
    ELSE parts[1] \o " " \o JoinSpace(Tail(parts))

\* detection_data of transform_paddleocr_result (lines 283-316): the
\* detections kept, with the padding removed, sorted by (center_y, min_x)
DetectionsKept(detections, padding) ==
    StableSort(
        LET kept == SelectSeq(detections,
                              LAMBDA d : d.confidence >= 70 /\ Len(Strip(d.text)) >= 2)
        IN [k \in 1..Len(kept) |-> DetectionData(kept[k], padding)],
        LAMBDA a, b : \/ FLt(a.center_y, b.center_y)
                      \/ a.center_y = b.center_y /\ a.min_x < b.min_x)

\* The result lines of transform_paddleocr_result: the text of each line
ResultLines(lines) ==
    [k \in 1..Len(lines) |-> JoinSpace([w \in 1..Len(lines[k]) |-> lines[k][w].text])]

(* The transformation as a state machine: the OCR engine reports the       *)
(* detections of a page one by one, then the page is transformed.          *)

\* The detections the OCR engine may report on a page 1000 wide.
Banner == RawDetection(20, 200, 820, 240, "*xxxxxxxxxxBottom of Baske xxxxxxxxxxx", 95)
CokeZero == RawDetection(120, 210, 500, 250, "232952 COKE ZERO", 99)
CokePrice == RawDetection(760, 210, 920, 248, "17.19 H", 99)
KsIbu == RawDetection(120, 320, 550, 360, "305882 *KS IBU 400M", 99)
KsPrice == RawDetection(760, 324, 900, 356, "16.99", 99)
Multiplier == RawDetection(560, 326, 640, 352, "2 @", 90)
Smudge == RawDetection(300, 222, 340, 236, "~~", 40)

PageDetections == {Banner, CokeZero, CokePrice, KsIbu, KsPrice, Multiplier, Smudge}

PaddedWidth == 1000

InitGrouper ==
    /\ grp = [pc |-> "scanning", raw |-> <<>>, padding |-> 0, detections |-> <<>>,
              lines |-> <<>>, text |-> <<>>]
    /\ acct = [pc |-> "idle"]
    /\ svc = [pc |-> "idle"]
    /\ dates = [pc |-> "idle"]
    /\ statement = <<>>
    /\ enriched = [p \in Paths |-> NoFile]
    /\ ledgerBroken = FALSE
    /\ last = NoCall
    /\ enr = [pc |-> "idle"]
    /\ mt = [pc |-> "idle"]
    /\ rt = [pc |-> "idle"]
    /\ sess = [pc |-> "idle"]
    /\ cat = [pc |-> "idle"]
    /\ ocr = [pc |-> "idle"]

\* The OCR engine adds a detection to raw_result["detections"].
Detect(detection) ==
    /\ grp.pc = "scanning"
    /\ \A k \in 1..Len(grp.raw) : grp.raw[k] # detection
    /\ grp' = [grp EXCEPT !.raw = Append(@, detection)]
    /\ UNCHANGED <<statement, enriched, ledgerBroken, last, mt, rt, sess, cat, ocr, acct, svc, dates, enr>>

\* The page of transform_paddleocr_result for the detections kept
Transformed(raw, padding, detections, lines) ==
    [pc |-> "transformed", raw |-> raw, padding |-> padding, detections |-> detections,
     lines |-> lines, text |-> ResultLines(lines)]

\* transform_paddleocr_result(raw_result, padding)
Transform(padding) ==
    /\ grp.pc = "scanning"
    /\ grp' = Transformed(grp.raw, padding, DetectionsKept(grp.raw, padding),
                          group_detections_by_y_overlap(DetectionsKept(grp.raw, padding),
                                                        PaddedWidth - 2 * padding))
    /\ UNCHANGED <<statement, enriched, ledgerBroken, last, mt, rt, sess, cat, ocr, acct, svc, dates, enr>>

NextGrouper ==
    \/ \E detection \in PageDetections : Detect(detection)
    \/ \E padding \in {0, OCR_IMAGE_PADDING} : Transform(padding)

SpecGrouper == InitGrouper /\ [][NextGrouper]_vars

(* Claims about the grouper, checked under SpecGrouper. *)

ImageWidth == PaddedWidth - 2 * grp.padding

\* The places <<line, word>> of the grouped lines
LinePlaces == UNION {{<<l, w>> : w \in 1..Len(grp.lines[l])} : l \in 1..Len(grp.lines)}

\* C15: the lines are a partition of the detections given to the grouper:
\* every detection is at exactly one place of one line and no line holds
\* anything else, and no line holds two LEFT or two RIGHT detections, so a
\* price is paired with at most one item and an item with at most one price.
C15_LinesPartitionDetections ==
    grp.pc = "transformed"
        => /\ \A k \in 1..Len(grp.detections) :
                 Cardinality({p \in LinePlaces : grp.lines[p[1]][p[2]] = grp.detections[k]}) = 1
           /\ Cardinality(LinePlaces) = Len(grp.detections)
           /\ \A l \in 1..Len(grp.lines) :
                 /\ grp.lines[l] # <<>>
                 /\ Cardinality({w \in 1..Len(grp.lines[l]) :
                                    IsLeft(grp.lines[l][w], ImageWidth)}) <= 1
                 /\ Cardinality({w \in 1..Len(grp.lines[l]) :
                                    IsRight(grp.lines[l][w], ImageWidth)}) <= 1

\* A page was grouped on which two LEFT detections overlap the same price:
\* one is paired with it, the other stands without a price, and another
\* price stands alone.
C15_TwoItemsOnePrice ==
    /\ grp.pc = "transformed"
    /\ \E a, b \in 1..Len(grp.lines) :
          /\ a # b
          /\ \E w, x \in 1..Len(grp.lines[a]) :
                /\ IsLeft(grp.lines[a][w], ImageWidth)
                /\ IsRight(grp.lines[a][x], ImageWidth)
                /\ \A y \in 1..Len(grp.lines[b]) : ~IsRight(grp.lines[b][y], ImageWidth)
                /\ \E y \in 1..Len(grp.lines[b]) :
                      /\ IsLeft(grp.lines[b][y], ImageWidth)
                      /\ boxes_overlap_y(grp.lines[b][y], grp.lines[a][x], Frac(3, 10))
    /\ \E c \in 1..Len(grp.lines) :
          \A w \in 1..Len(grp.lines[c]) : IsRight(grp.lines[c][w], ImageWidth)

\* The text of a banner or marker line
IsBannerText(text) == Contains(text, "Bottom of Baske") \/ Contains(text, "BOB Count")

\* C16: an item description on the LEFT and the price on the RIGHT at its
\* vertical position are in one line of the transformed page, and no line
\* of the output carries the text of a banner, also when a banner overlaps
\* the item row.
C16_ItemKeepsPriceBesideBanner ==
    grp.pc = "transformed"
        => /\ \A i, j \in 1..Len(grp.detections) :
                 ( /\ IsLeft(grp.detections[i], ImageWidth)
                   /\ ~IsBannerText(grp.detections[i].text)
                   /\ IsRight(grp.detections[j], ImageWidth)
                   /\ boxes_overlap_y(grp.detections[i], grp.detections[j], Frac(3, 10)) )
                     => \E l \in 1..Len(grp.lines) :
                           \E w, x \in 1..Len(grp.lines[l]) :
                               /\ grp.lines[l][w] = grp.detections[i]
                               /\ grp.lines[l][x] = grp.detections[j]
           /\ \A l \in 1..Len(grp.text) : ~IsBannerText(grp.text[l])


----------------------------------------------------------------------------
(* Regular expressions of the item parsers (module re).  A pattern is a    *)
(* tree; Ends gives the places where a match that starts at one of the     *)
(* places in S can end.  Places are 1..Len(s)+1, a match of s[i..j-1]      *)
(* starts at i and ends at j.                                              *)

CharsOf(str) == {Ch(str, i) : i \in 1..Len(str)}

Node(t, c, r, lo, hi) == [t |-> t, c |-> c, r |-> r, lo |-> lo, hi |-> hi]

Chars(str) == Node("chars", CharsOf(str), <<>>, 0, 0)          \* [...]
NotChars(str) == Node("notchars", CharsOf(str), <<>>, 0, 0)    \* [^...]
Then(rs) == Node("seq", {}, rs, 0, 0)
Alt(rs) == Node("alt", {}, rs, 0, 0)                           \* a|b
Rep(r, lo, hi) == Node("rep", {}, <<r>>, lo, hi)               \* r{lo,hi}
Star(r) == Rep(r, 0, -1)                                       \* r*
Plus(r) == Rep(r, 1, -1)                                       \* r+
Opt(r) == Rep(r, 0, 1)                                         \* r?
Bol == Node("bol", {}, <<>>, 0, 0)                             \* ^
Eol == Node("eol", {}, <<>>, 0, 0)                             \* $
Wb == Node("wb", {}, <<>>, 0, 0)                               \* \b
Lit(str) == Then([i \in 1..Len(str) |-> Node("chars", {Ch(str, i)}, <<>>, 0, 0)])

D == Chars(DigitChars)                                         \* \d
Ws == Chars(" \t\n\r")                                         \* \s
Alnum == Chars(DigitChars \o UpperLetters \o LowerLetters)     \* [0-9A-Za-z]
W == Chars(DigitChars \o UpperLetters \o LowerLetters \o "_")  \* \w
TaxMark == Chars("HhTtJj")                                     \* [HhTtJj]

WordAt(s, i) == i >= 1 /\ i <= Len(s) /\ IsWordChar(Ch(s, i))

RECURSIVE Ends(_, _, _)
RECURSIVE SeqEnds(_, _, _, _)
RECURSIVE RepEnds(_, _, _, _, _)
Ends(re, s, S) ==
    CASE re.t = "chars" -> {i + 1 : i \in {i \in S : i <= Len(s) /\ Ch(s, i) \in re.c}}
      [] re.t = "notchars" -> {i + 1 : i \in {i \in S : i <= Len(s) /\ Ch(s, i) \notin re.c}}
      [] re.t = "seq" -> SeqEnds(re.r, s, S, 1)
      [] re.t = "alt" -> UNION {Ends(re.r[k], s, S) : k \in 1..Len(re.r)}
      [] re.t = "rep" -> RepEnds(re, s, S, 0, {})
      [] re.t = "bol" -> S \cap {1}
      [] re.t = "eol" -> S \cap {Len(s) + 1}
      [] re.t = "wb" -> {i \in S : WordAt(s, i - 1) # WordAt(s, i)}

SeqEnds(rs, s, S, k) ==
    IF k > Len(rs) \/ S = {} THEN S ELSE SeqEnds(rs, s, Ends(rs[k], s, S), k + 1)

\* S holds the places after exactly n repetitions, acc those already counted.
RepEnds(re, s, S, n, acc) ==
    IF S = {} THEN acc
    ELSE IF n = re.hi THEN acc \cup S
    ELSE IF n >= re.lo /\ S \subseteq acc THEN acc
    ELSE RepEnds(re, s, Ends(re.r[1], s, S), n + 1,
                 IF n >= re.lo THEN acc \cup S ELSE acc)

\* re.search(pattern, s) is not None
Search(re, s) == Ends(re, s, 1..(Len(s) + 1)) # {}

\* re.match(pattern, s) is not None
Match(re, s) == Ends(re, s, {1}) # {}

\* match.start() of re.search(pattern, s), as a place; 0 without a match
SearchStart(re, s) ==
    LET starts == {i \in 1..(Len(s) + 1) : Ends(re, s, {i}) # {}}
    IN IF starts = {} THEN 0 ELSE CHOOSE i \in starts : \A j \in starts : i <= j

\* The end of the longest match of the pattern at place i (greedy patterns
\* without alternatives), i itself without a match
GreedyEnd(re, s, i) == IF Ends(re, s, {i}) = {} THEN i ELSE MaxOf(Ends(re, s, {i}))

\* re.sub("^" + pattern, "", s)
StripLeading(re, s) == SubSeq(s, GreedyEnd(re, s, 1), Len(s))

----------------------------------------------------------------------------
(* receipt/ocr_parser/common.py: helpers shared by the item parsers.       *)
(* Prices are integers of cents.  A pattern compiled with re.IGNORECASE is *)
(* written in upper case and matched against the upper-cased text.         *)

SECTION_HEADERS == {"MEAT", "SEAFOOD", "PRODUCE", "DELI", "GROCERY", "BAKERY", "FROZEN"}

\* r"^\d{1,2}\s*[-:]\s*[A-Z]{3,}$"
SECTION_HEADER_WITH_AISLE ==
    Then(<<Bol, Rep(D, 1, 2), Star(Ws), Chars("-:"), Star(Ws), Rep(Chars(UpperLetters), 3, -1), Eol>>)

\* r"^\d{1,2}\s*[-:]"
SECTION_AISLE_PREFIX == Then(<<Bol, Rep(D, 1, 2), Star(Ws), Chars("-:")>>)

\* SUMMARY_PATTERNS, re.IGNORECASE
SUMMARY_PATTERNS ==
    Then(<<Bol, Alt(<<Then(<<Lit("SUB"), Star(Ws), Lit("TOTAL")>>), Lit("SUBTOTAL"), Lit("TOTAL"),
                      Lit("HST"), Lit("GST"), Lit("PST"), Lit("TAX"), Lit("MASTER"), Lit("VISA"),
                      Lit("DEBIT"), Lit("CREDIT"), Lit("POINTS"), Lit("CASH"), Lit("CHANGE"),
                      Lit("BALANCE"), Lit("APPROVED"), Lit("CARD"), Lit("TERMINAL"),
                      Lit("MEMBER")>>)>>)

\* r"\d+\.\d{2}"
Money == Then(<<Plus(D), Lit("."), Rep(D, 2, 2)>>)

\* r"\s*[HhTtJj]?\s*$"
MarkerToEnd == Then(<<Star(Ws), Opt(TaxMark), Star(Ws), Eol>>)

\* QUANTITY_MODIFIER_PATTERNS: the first group and what follows it
CountAtPriceGap == Then(<<Star(Ws), Lit("@"), Star(Ws), Opt(Lit("$"))>>)
WeightNumber == Then(<<Plus(D), Opt(Lit(".")), Star(D)>>)
WeightUnitAt ==
    Then(<<Star(Ws),
           Alt(<<Lit("LB"), Lit("LK"), Lit("KG"), Then(<<Lit("K"), Chars("G9")>>), Lit("1B"),
                 Lit("1K")>>),
           Star(Ws), Lit("@")>>)
MultiForGap == Then(<<Star(Ws), Lit("/"), Star(Ws), Lit("for"), Plus(Ws), Opt(Lit("$"))>>)

\* Decimal(text) in cents, for text matching \d+\.\d{2}
Cents(text) ==
    StrToInt(SubSeq(text, 1, Len(text) - 3)) * 100 + StrToInt(SubSeq(text, Len(text) - 1, Len(text)))

\* The end of the first group: the longest match of the group after which
\* the rest of the pattern matches; 0 when the pattern does not match at i.
GroupEnd(group, rest, s, i) ==
    LET ends == {j \in Ends(group, s, {i}) : Ends(rest, s, {j}) # {}}
    IN IF ends = {} THEN 0 ELSE MaxOf(ends)

NoModifier ==
    [none |-> TRUE, pattern_type |-> "", quantity |-> 0, unit_price |-> 0, deal_price |-> 0,
     weight |-> "", raw_line |-> ""]

\* "3 @ $1.99": g is the end of the count, the price starts after the gap
CountAtPrice(line, g) ==
    [none |-> FALSE, pattern_type |-> "count_at_price",
     quantity |-> StrToInt(SubSeq(line, 1, g - 1)),
     unit_price |-> Cents(SubSeq(line, GreedyEnd(CountAtPriceGap, line, g),
                                 GreedyEnd(Money, line, GreedyEnd(CountAtPriceGap, line, g)) - 1)),
     deal_price |-> 0, weight |-> "", raw_line |-> line]

\* "1.22 lb @ $2.99/lb": str(Decimal(groups[0])) is kept as the weight
WeightAtPrice(line, g) ==
    [none |-> FALSE, pattern_type |-> "weight_at_price", quantity |-> 1, unit_price |-> 0,
     deal_price |-> 0,
     weight |-> IF Ch(line, g - 1) = "." THEN SubSeq(line, 1, g - 2) ELSE SubSeq(line, 1, g - 1),
     raw_line |-> line]

\* "2 /for $3.00" or "(2 /for $3.00)": open is 1 after a parenthesis, g the
\* end of the count; unit_price (total / qty) is not used by the parsers.
MultiForPrice(line, open, g) ==
    [none |-> FALSE, pattern_type |-> "multi_for_price",
     quantity |-> StrToInt(SubSeq(line, 1 + open, g - 1)),
     unit_price |-> 0,
     deal_price |-> Cents(SubSeq(line, GreedyEnd(MultiForGap, line, g),
                                 GreedyEnd(Money, line, GreedyEnd(MultiForGap, line, g)) - 1)),
     weight |-> "", raw_line |-> line]

\* The third pattern of _parse_quantity_modifier
ParseMultiFor(line, open) ==
    IF GroupEnd(Plus(D), Then(<<MultiForGap, Money>>), line, 1 + open) # 0
    THEN MultiForPrice(line, open, GroupEnd(Plus(D), Then(<<MultiForGap, Money>>), line, 1 + open))
    ELSE NoModifier

\* _parse_quantity_modifier(line), for a stripped line
ParseModifier(line) ==
    IF GroupEnd(Plus(D), Then(<<CountAtPriceGap, Money>>), line, 1) # 0
    THEN CountAtPrice(line, GroupEnd(Plus(D), Then(<<CountAtPriceGap, Money>>), line, 1))
    ELSE IF GroupEnd(WeightNumber, WeightUnitAt, Upper(line), 1) # 0
         THEN WeightAtPrice(line, GroupEnd(WeightNumber, WeightUnitAt, Upper(line), 1))
    ELSE IF StartsWith(line, "(") /\ ParseMultiFor(line, 1).none = FALSE
         THEN ParseMultiFor(line, 1)
    ELSE ParseMultiFor(line, 0)

parse_quantity_modifier(line) == ParseModifier(Strip(line))

\* _validate_quantity_price(total_price, modifier), tolerance Decimal("0.02")
validate_quantity_price(total_price, modifier) ==
    CASE modifier.pattern_type = "count_at_price" ->
            Abs(modifier.quantity * modifier.unit_price - total_price) <= 2
      [] modifier.pattern_type = "multi_for_price" ->
            Abs(modifier.deal_price - total_price) <= 2
      [] modifier.pattern_type = "weight_at_price" -> TRUE
      [] OTHER -> FALSE

\* The other formats of _looks_like_quantity_expression (lines 224-229)
QuantityFormats ==
    <<Then(<<Bol, Plus(D), Star(Ws), Lit("/"), Star(Ws), Lit("FOR"), Wb>>),
      Then(<<Bol, Plus(D), Star(Ws), Lit("@"), Star(Ws), Plus(D), Star(Ws), Lit("/"), Star(Ws),
             Opt(Lit("$")), Money, Wb>>),
      Then(<<Bol, Lit("("), Plus(D), Star(Ws), Lit("/"), Star(Ws), Lit("for"), Plus(Ws), Lit("$"),
             Plus(Chars(DigitChars \o ".")), Lit(")")>>),
      Then(<<Bol, Lit("("), Plus(NotChars(")")), Lit(")"), Plus(Ws), Plus(D), Star(Ws), Lit("/"),
             Star(Ws), Lit("FOR"), Wb>>)>>

\* _looks_like_quantity_expression(text)
looks_like_quantity_expression(text) ==
    /\ Strip(text) # ""
    /\ \/ ~parse_quantity_modifier(Strip(text)).none
       \/ Match(QuantityFormats[1], Upper(Strip(text)))
       \/ Match(QuantityFormats[2], Upper(Strip(text)))
       \/ Match(QuantityFormats[3], Strip(text))
       \/ Match(QuantityFormats[4], Upper(Strip(text)))

\* re.sub(r"\s+", " ", s)
RECURSIVE CollapseSpaces(_)
CollapseSpaces(s) ==
    IF s = "" THEN ""
    ELSE IF IsSpace(Ch(s, 1))
         THEN " " \o CollapseSpaces(SubSeq(s, GreedyEnd(Plus(Ws), s, 1), Len(s)))
    ELSE Ch(s, 1) \o CollapseSpaces(SubSeq(s, 2, Len(s)))

\* re.findall(r"[A-Z]+", s) holds the word
HasToken(s, word) ==
    \E i \in 1..(Len(s) - Len(word) + 1) :
        /\ SubSeq(s, i, i + Len(word) - 1) = word
        /\ ~(i > 1 /\ IsUpperLetter(Ch(s, i - 1)))
        /\ ~(i + Len(word) <= Len(s) /\ IsUpperLetter(Ch(s, i + Len(word))))

\* The tests of _is_section_header_text on the normalized text
IsSectionHeader(normalized) ==
    \/ normalized \in SECTION_HEADERS
    \/ Match(SECTION_HEADER_WITH_AISLE, normalized)
    \/ /\ Match(SECTION_AISLE_PREFIX, normalized)
       /\ \E header \in SECTION_HEADERS : HasToken(normalized, header)

\* _is_section_header_text(text)
is_section_header_text(text) ==
    text # "" /\ IsSectionHeader(CollapseSpaces(Upper(Strip(text))))

\* _strip_leading_receipt_codes(text)
strip_leading_receipt_codes(text) ==
    Strip(StripLeading(Then(<<Rep(D, 6, -1), Star(Ws)>>),
                       StripLeading(Then(<<Lit("("), Plus(D), Lit(")"), Star(Ws)>>), Strip(text))))

\* The tests of _looks_like_summary_line on the upper-cased text
IsSummary(upper) ==
    \/ Match(SUMMARY_PATTERNS, upper)
    \/ Contains(upper, "SUBTOTAL") \/ Contains(upper, "SUB TOTAL")
    \/ Contains(upper, "TOTAL")
    \/ Search(Then(<<Wb, Alt(<<Lit("HST"), Lit("GST"), Lit("PST"), Lit("TAX")>>), Wb>>), upper)
    \/ /\ StartsWith(upper, "H=")
       /\ \E tag \in {"HST", "GST", "PST", "TAX"} : Contains(upper, tag)

\* _looks_like_summary_line(text)
looks_like_summary_line(text) == text # "" /\ IsSummary(Strip(Upper(text)))

----------------------------------------------------------------------------
(* receipt/ocr_parser/items_text_parser.py: _extract_items, the text       *)
(* strategy.  Lines are numbered from 1; an item and a warning remember    *)
(* the line whose price made them (price_line) and an item the line its    *)
(* description came from (desc_line).                                      *)

Gap(a, b) == Then(<<Lit(a), Plus(Ws), Lit(b)>>)
From(a) == Then(<<Bol, Lit(a)>>)
Whole(a) == Then(<<Bol, Lit(a), Eol>>)

\* skip_patterns, joined with "|" and compiled with re.IGNORECASE
skip_regex ==
    Alt(<<Lit("TOTAL"), Lit("SUBTOTAL"), Gap("SUB", "TOTAL"),
          Then(<<Lit("TOTAL"), Opt(Lit("S")), Plus(Ws), Lit("ON")>>),
          Whole("TAX"), From("HST"), From("GST"), From("PST"), Gap("AFTER", "TAX"),
          Then(<<Plus(D), Lit("%"), Eol>>),
          Lit("CASH"), Lit("CREDIT"), Lit("DEBIT"), Lit("CHANGE"), From("BALANCE"), Lit("VISA"),
          Lit("MASTERCARD"), Lit("AMEX"), Lit("APPROVED"), Lit("ACTIVATED"),
          Then(<<Bol, Lit("PC"), Plus(Ws), D>>), From("ACCT:"), From("REFERENCE"),
          Lit("THANK YOU"), Lit("WELCOME"), Lit("RECEIPT"), Lit("TRANSACTION"), Lit("POINTS"),
          Lit("REWARDS"), Lit("EARNED"), Whole("SAVED"), From("YOU SAVED"), From("CARD"),
          Lit("AUTH"), Then(<<Lit("REF"), Star(Ws), Lit("#")>>),
          Then(<<Lit("SLIP"), Star(Ws), Lit("#")>>), From("TILL"), Lit("CASHIER"),
          Then(<<Wb, Lit("STORE"), Wb>>), From("PHONE"), Lit("ADDRESS"), Lit("SIGNATURE"),
          Lit("MERCHANT"), Whole("QTY"), Whole("UNIT"), Whole("SAV"), Gap("ITEM", "COUNT"),
          Then(<<Lit("NUMBER"), Plus(Ws), Lit("OF"), Plus(Ws), Lit("ITEMS")>>),
          Then(<<Lit("XXX"), Plus(Lit("X"))>>), From("CAD"), Lit("VERIFIED"), Whole("PIN"),
          Gap("CUSTOMER", "COPY"), Then(<<Lit("COPY"), Eol>>), Lit("OPTIMUM"),
          Lit("REDEEMED")>>)

\* skip_regex.search(line)
SkipLine(line) == Search(skip_regex, Upper(line))

\* r"(\d+\.\d{2})(-?)\s*[HhTtJj]?\s*$"
PriceAtEnd == Then(<<Money, Opt(Lit("-")), MarkerToEnd>>)

\* r"\d+\.\d{2}\s*[HhTtJj]?\s*$"
TrailingPrice == Then(<<Money, MarkerToEnd>>)

\* r"([0-9A-Za-z]\.[0-9A-Za-z]{2,3}[HhTtJj]?)\s*$": the group and the rest
TailToken == Then(<<Alnum, Lit("."), Rep(Alnum, 2, 3), Opt(TaxMark)>>)
SpaceToEnd == Then(<<Star(Ws), Eol>>)

\* r"(\d+[Il]\.\d{2}|\d+\.[Il]\d|\d+\.\d[Il])": the group before \s*[HhTtJj]?\s*$
MalformedPrice ==
    Alt(<<Then(<<Plus(D), Chars("Il"), Lit("."), Rep(D, 2, 2)>>),
          Then(<<Plus(D), Lit("."), Chars("Il"), D>>),
          Then(<<Plus(D), Lit("."), D, Chars("Il")>>)>>)

\* The index of the TOTAL line that ends the item section, 0 if none
\* (lines 105-109)
total_line_idx(lines) ==
    LET found == {i \in 1..Len(lines) :
                     /\ Search(Then(<<Wb, Lit("TOTAL"), Wb>>), Upper(lines[i]))
                     /\ ~Contains(Upper(lines[i]), "SUBTOTAL")}
    IN IF found = {} THEN 0 ELSE CHOOSE i \in found : \A j \in found : i <= j

\* The price of the match of PriceAtEnd that starts at place start, in cents
MatchedPrice(line, start) ==
    IF /\ GreedyEnd(Money, line, start) <= Len(line)
       /\ Ch(line, GreedyEnd(Money, line, start)) = "-"
    THEN -Cents(SubSeq(line, start, GreedyEnd(Money, line, start) - 1))
    ELSE Cents(SubSeq(line, start, GreedyEnd(Money, line, start) - 1))

\* The price at the end of the line, for a line that PriceAtEnd matches
LinePrice(line) == MatchedPrice(line, SearchStart(PriceAtEnd, line))

\* line.strip(), cut to 80 characters
Context(line) == SubSeq(Strip(line), 1, Min(80, Len(Strip(line))))

\* ReceiptWarning(message, after_item_index=(len(items) - 1) if items else None)
Warning(message, items, i) ==
    [message |-> message,
     after_item_index |-> IF items = <<>> THEN NoneInt ELSE Some(Len(items) - 1),
     price_line |-> i]

HasAlpha(s) == \E k \in 1..Len(s) : Ch(s, k) \in CharsOf(UpperLetters \o LowerLetters)

AlphaCount(s) == Cardinality({k \in 1..Len(s) : Ch(s, k) \in CharsOf(UpperLetters \o LowerLetters)})

\* tail_token of the line: group 1 of the search for TailToken before \s*$,
\* "" without a match
tail_token(line) ==
    IF SearchStart(Then(<<TailToken, SpaceToEnd>>), line) = 0 THEN ""
    ELSE SubSeq(line, SearchStart(Then(<<TailToken, SpaceToEnd>>), line),
                GroupEnd(TailToken, SpaceToEnd, line,
                         SearchStart(Then(<<TailToken, SpaceToEnd>>), line)) - 1)

MultiBuyWarning(line, items, i) ==
    Warning("maybe missed item near malformed multi-buy total \"" \o tail_token(line)
            \o "\" (context: \"" \o Context(line) \o "\")", items, i)

\* ReceiptItem(description, price, quantity, category)
ItemOf(description, price, quantity, name, i, j, modifier) ==
    [description |-> description, price |-> price, quantity |-> quantity,
     category |-> categorize_item(name, NoneStr, build_item_category_rule_layers(<<>>, <<>>)),
     price_line |-> i, desc_line |-> j, found_desc |-> name, modifier |-> modifier]

\* The first non-empty line among the next three decides whether the price
\* of a section header row repeats on an item row (lines 185-202).
RECURSIVE HeaderPriceRepeats(_, _, _, _)
HeaderPriceRepeats(lines, j, last_j, price) ==
    IF j > last_j THEN FALSE
    ELSE IF Strip(lines[j]) = "" THEN HeaderPriceRepeats(lines, j + 1, last_j, price)
    ELSE /\ ~looks_like_summary_line(Strip(lines[j]))
         /\ Search(PriceAtEnd, Strip(lines[j]))
         /\ LinePrice(Strip(lines[j])) = price

\* A line after a priced section header that can give the description
\* (lines 239-262)
IsLookaheadDescription(next_line) ==
    /\ next_line # ""
    /\ ~SkipLine(next_line)
    /\ ~looks_like_summary_line(next_line)
    /\ ~looks_like_quantity_expression(next_line)
    /\ ~Search(PriceAtEnd, next_line)
    /\ ~Match(Then(<<Bol, Opt(Lit("$")), Money, MarkerToEnd>>), next_line)
    /\ ~Match(Then(<<Bol, Rep(D, 8, -1), SpaceToEnd>>), next_line)
    /\ strip_leading_receipt_codes(next_line) # ""
    /\ ~is_section_header_text(strip_leading_receipt_codes(next_line))
    /\ 2 * AlphaCount(strip_leading_receipt_codes(next_line))
          >= Len(strip_leading_receipt_codes(next_line))

NotFound == [found |-> FALSE, desc |-> "", desc_line |-> 0, qty_modifiers |-> <<>>, qty_info |-> <<>>]

\* The first line after a priced section header that gives the description
Lookahead(lines, i) ==
    LET found == {j \in (i + 1)..Min(i + 4, Len(lines)) : IsLookaheadDescription(Strip(lines[j]))}
    IN IF found = {} THEN NotFound
       ELSE [NotFound EXCEPT
               !.found = TRUE,
               !.desc_line = CHOOSE j \in found : \A k \in found : j <= k,
               !.desc = strip_leading_receipt_codes(
                            Strip(lines[CHOOSE j \in found : \A k \in found : j <= k]))]

\* A line of the backward search that is passed over without a trace
\* (lines 271-276 and 289-314)
PassedOver(prev_line) ==
    \/ Match(Then(<<Bol, Plus(Chars(DigitChars \o ".")), MarkerToEnd>>), prev_line)
    \/ Match(Then(<<Bol, Rep(D, 8, -1), Eol>>), prev_line)
    \/ SkipLine(prev_line)

NotDescription(prev_line) ==
    \/ Match(Then(<<Bol, Lit("$"), Money>>), prev_line)
    \/ Match(Then(<<Bol, Lit("("), Star(NotChars(")")), Lit(")"), Eol>>), prev_line)
    \/ (StartsWith(prev_line, "(") /\ Ch(prev_line, Len(prev_line)) # ")")
    \/ Match(Then(<<Bol, Lit("("), Star(NotChars(")")), Lit(")"), Star(Ws), Opt(Lit("<")),
                    Star(Ws), Lit("ON"), Star(Ws), Lit("SALE")>>), Upper(prev_line))
    \/ Match(Then(<<Bol, Lit("("), Plus(D), Star(Ws), Lit("/"), Star(Ws), Lit("for"), Plus(Ws),
                    Lit("$"), Plus(Chars(DigitChars \o ".")), Lit(")")>>), prev_line)
    \/ Len(prev_line) <= 3
    \/ 2 * AlphaCount(StripLeading(Then(<<Plus(D), Star(Ws)>>), prev_line))
          < Len(StripLeading(Then(<<Plus(D), Star(Ws)>>), prev_line))
    \/ StripLeading(Then(<<Plus(D), Star(Ws)>>), prev_line) = ""
    \/ Match(Then(<<Bol, Plus(Chars(DigitChars \o ".")), Eol>>), prev_line)

\* The backward search for the description (lines 267-327): from line j
\* down to line first_j, collecting the modifiers met on the way
RECURSIVE Backward(_, _, _, _, _)
Backward(lines, j, first_j, qty_modifiers, qty_info) ==
    IF j < first_j
    THEN [NotFound EXCEPT !.qty_modifiers = qty_modifiers, !.qty_info = qty_info]
    ELSE IF PassedOver(Strip(lines[j]))
         THEN Backward(lines, j - 1, first_j, qty_modifiers, qty_info)
    ELSE IF ~parse_quantity_modifier(Strip(lines[j])).none
         THEN Backward(lines, j - 1, first_j,
                       Append(qty_modifiers, parse_quantity_modifier(Strip(lines[j]))),
                       Append(qty_info, Strip(lines[j])))
    ELSE IF looks_like_quantity_expression(Strip(lines[j]))
         THEN Backward(lines, j - 1, first_j, qty_modifiers, Append(qty_info, Strip(lines[j])))
    ELSE IF NotDescription(Strip(lines[j]))
         THEN Backward(lines, j - 1, first_j, qty_modifiers, qty_info)
    ELSE [found |-> TRUE, desc |-> Strip(lines[j]), desc_line |-> j,
          qty_modifiers |-> qty_modifiers, qty_info |-> qty_info]

\* ", ".join(reversed(qty_info))
RECURSIVE JoinReversed(_)
JoinReversed(qty_info) ==
    IF Len(qty_info) = 1 THEN qty_info[1]
    ELSE qty_info[Len(qty_info)] \o ", " \o JoinReversed(SubSeq(qty_info, 1, Len(qty_info) - 1))

\* The item of a description found by a search (lines 329-368)
FoundItem(search, price, i) ==
    IF search.qty_modifiers # <<>>
    THEN IF validate_quantity_price(price, search.qty_modifiers[1])
         THEN ItemOf(search.desc
                   \o (IF search.qty_modifiers[1].pattern_type = "weight_at_price"
                       THEN " (" \o search.qty_modifiers[1].weight \o " lb)" ELSE ""),
                   price, search.qty_modifiers[1].quantity, search.desc, i, search.desc_line,
                   search.qty_modifiers[1])
         ELSE ItemOf(search.desc \o " (" \o JoinReversed(search.qty_info) \o ")",
                   price, 1, search.desc, i, search.desc_line, search.qty_modifiers[1])
    ELSE IF search.qty_info # <<>>
         THEN ItemOf(search.desc \o " (" \o JoinReversed(search.qty_info) \o ")",
                   price, 1, search.desc, i, search.desc_line, NoModifier)
    ELSE ItemOf(search.desc, price, 1, search.desc, i, search.desc_line, NoModifier)

\* Lines 329-381: the item of the search, or the warning for a price
\* without a description
AfterSearch(acc, line, price, i, search) ==
    IF search.found /\ search.desc # ""
    THEN [acc EXCEPT !.items = Append(@, FoundItem(search, price, i))]
    ELSE IF price > 0
         THEN [acc EXCEPT !.warnings =
                  Append(@, Warning("maybe missed item near price " \o Fmt2(price)
                                    \o (IF Context(line) # ""
                                        THEN " (context: \"" \o Context(line) \o "\")" ELSE ""),
                                    acc.items, i))]
    ELSE acc

\* Lines 227-381, for the description left on the price line
WithDescription(lines, i, acc, price, desc_part, is_priced_section_header, force_backward) ==
    IF /\ desc_part # "" /\ Len(desc_part) > 2 /\ ~force_backward
       /\ ~looks_like_quantity_expression(desc_part)
       /\ ~Match(Then(<<Bol, Lit("("), Star(Chars("#" \o DigitChars \o UpperLetters \o "_")),
                        Lit(")"), Star(Ws), Opt(Lit("<")), Star(Ws), Lit("ON"), Star(Ws),
                        Lit("SALE")>>), Upper(desc_part))
    THEN [acc EXCEPT !.items = Append(@, ItemOf(desc_part, price, 1, desc_part, i, i, NoModifier))]
    ELSE IF is_priced_section_header
         THEN IF Lookahead(lines, i).found
              THEN AfterSearch(acc, lines[i], price, i, Lookahead(lines, i))
              ELSE acc
    ELSE AfterSearch(acc, lines[i], price, i, Backward(lines, i - 1, Max(i - 5, 1), <<>>, <<>>))

\* Lines 170-225, for the text before the price with the leading item code
\* removed
WithHeaderCheck(lines, i, acc, price, desc_part, force_backward) ==
    IF desc_part # "" /\ is_section_header_text(desc_part)
    THEN IF HeaderPriceRepeats(lines, i + 1, Min(i + 3, Len(lines)), price) THEN acc
         ELSE WithDescription(lines, i, acc, price, "", TRUE, force_backward)
    ELSE WithDescription(lines, i, acc, price, desc_part, FALSE, force_backward)

\* len(re.findall(pattern, s)), counted from place i on
RECURSIVE CountMatches(_, _, _)
CountMatches(re, s, i) ==
    IF {k \in i..(Len(s) + 1) : Ends(re, s, {k}) # {}} = {} THEN 0
    ELSE 1 + CountMatches(re, s, GreedyEnd(re, s, CHOOSE k \in i..(Len(s) + 1) :
                                               /\ Ends(re, s, {k}) # {}
                                               /\ \A j \in i..(k - 1) : Ends(re, s, {j}) = {}))

\* "TOTAL" in upper or "SUBTOTAL" in upper or "SUB TOTAL" in upper
HasTotalWord(upper) ==
    Contains(upper, "TOTAL") \/ Contains(upper, "SUBTOTAL") \/ Contains(upper, "SUB TOTAL")

\* Lines 142-176, for a line with a price at its end
WithPrice(lines, i, summary_amounts, acc, price, line_upper) ==
    IF /\ Contains(line_upper, "REG$") \/ Contains(line_upper, "@REG")
       /\ CountMatches(Money, lines[i], 1) > 1
       /\ i > 1 /\ Search(TrailingPrice, lines[i - 1])
    THEN acc
    ELSE IF HasTotalWord(line_upper) THEN acc
    ELSE IF i > 1 /\ Abs(price) \in summary_amounts /\ HasTotalWord(Upper(lines[i - 1]))
         THEN acc
    ELSE WithHeaderCheck(lines, i, acc, price,
                         StripLeading(Then(<<Rep(D, 8, -1), Star(Ws)>>),
                                      Strip(SubSeq(lines[i], 1, SearchStart(PriceAtEnd, lines[i]) - 1))),
                         Contains(line_upper, "REG$") \/ Contains(line_upper, "@REG"))

\* Lines 382-418: the warnings for a line without a price at its end
WithoutPrice(line, i, acc) ==
    IF Search(Then(<<MalformedPrice, MarkerToEnd>>), line)
    THEN [acc EXCEPT !.warnings =
             Append(@, Warning("maybe missed item with malformed OCR price \""
                               \o SubSeq(line, SearchStart(Then(<<MalformedPrice, MarkerToEnd>>), line),
                                         GroupEnd(MalformedPrice, MarkerToEnd, line,
                                                  SearchStart(Then(<<MalformedPrice, MarkerToEnd>>), line)) - 1)
                               \o "\" (context: \"" \o Context(line) \o "\")", acc.items, i))]
    ELSE IF /\ Contains(Upper(line), "/FOR")
            /\ Search(Then(<<Wb, TailToken, SpaceToEnd>>), line)
            /\ HasAlpha(tail_token(line))
         THEN [acc EXCEPT !.warnings = Append(@, MultiBuyWarning(line, acc.items, i))]
    ELSE acc

\* The body of the loop over the lines (lines 113-418) for line i
LineStep(lines, i, summary_amounts, acc) ==
    IF SkipLine(lines[i]) THEN acc
    ELSE IF Len(lines[i]) < 3 THEN acc
    ELSE IF Match(Then(<<Bol, Plus(D), Eol>>), lines[i]) THEN acc
    ELSE IF /\ looks_like_quantity_expression(lines[i])
            /\ ~Search(Then(<<Plus(Ws), Money, MarkerToEnd>>), lines[i])
         THEN IF Contains(Upper(lines[i]), "/FOR") /\ HasAlpha(tail_token(lines[i]))
              THEN [acc EXCEPT !.warnings = Append(@, MultiBuyWarning(lines[i], acc.items, i))]
              ELSE acc
    ELSE IF /\ Match(Then(<<Bol, Lit("("), Star(NotChars(")")), Opt(Lit(")")), Eol>>), lines[i])
            /\ ~Search(TrailingPrice, lines[i])
         THEN acc
    ELSE IF Search(PriceAtEnd, lines[i])
         THEN WithPrice(lines, i, summary_amounts, acc, LinePrice(lines[i]), Upper(lines[i]))
    ELSE WithoutPrice(lines[i], i, acc)

\* The loop of _extract_items (lines 113-118): it stops after the TOTAL line
RECURSIVE ExtractFrom(_, _, _, _, _)
ExtractFrom(lines, i, summary_amounts, total_idx, acc) ==
    IF i > Len(lines) \/ (total_idx # 0 /\ i > total_idx) THEN acc
    ELSE ExtractFrom(lines, i + 1, summary_amounts, total_idx,
                     LineStep(lines, i, summary_amounts, acc))

\* _extract_items(lines, summary_amounts, warning_sink): the items returned
\* and the warnings appended to the sink
extract_items(lines, summary_amounts) ==
    ExtractFrom(lines, 1, summary_amounts, total_line_idx(lines),
                [items |-> <<>>, warnings |-> <<>>])

(* Item extraction as a state machine: the lines of a receipt arrive from  *)
(* the OCR text, then the items are extracted from them.                   *)

MaxLines == 4

\* The lines a receipt may hold.
ReceiptLines ==
    {"MILK", "3 @ $1.99", "1.22 lb @ $2.99/lb", "5.97", "TAX 0.78", "TOTAL 6.75",
     "33-BAKERY INSTORE 12.00"}

\* The amounts parse_receipt found for total, tax and subtotal, in cents
SummaryAmounts == {{}, {675, 78}}

InitExtract ==
    /\ ocr = [pc |-> "reading", lines |-> <<>>, summary_amounts |-> {}, items |-> <<>>,
              warnings |-> <<>>]
    /\ statement = <<>>
    /\ enriched = [p \in Paths |-> NoFile]
    /\ ledgerBroken = FALSE
    /\ last = NoCall
    /\ enr = [pc |-> "idle"]
    /\ mt = [pc |-> "idle"]
    /\ rt = [pc |-> "idle"]
    /\ sess = [pc |-> "idle"]
    /\ cat = [pc |-> "idle"]
    /\ grp = [pc |-> "idle"]
    /\ acct = [pc |-> "idle"]
    /\ svc = [pc |-> "idle"]
    /\ dates = [pc |-> "idle"]

\* The next line of the receipt text
ReadLine(line) ==
    /\ ocr.pc = "reading"
    /\ Len(ocr.lines) < MaxLines
    /\ \A k \in 1..Len(ocr.lines) : ocr.lines[k] # line
    /\ ocr' = [ocr EXCEPT !.lines = Append(@, line)]
    /\ UNCHANGED <<statement, enriched, ledgerBroken, last, mt, rt, sess, cat, grp, acct, svc, dates, enr>>

Extracted(lines, summary_amounts, result) ==
    [pc |-> "extracted", lines |-> lines, summary_amounts |-> summary_amounts,
     items |-> result.items, warnings |-> result.warnings]

\* items = _extract_items(lines, summary_amounts, warning_sink=warnings)
Extract(summary_amounts) ==
    /\ ocr.pc = "reading"
    /\ ocr' = Extracted(ocr.lines, summary_amounts, extract_items(ocr.lines, summary_amounts))
    /\ UNCHANGED <<statement, enriched, ledgerBroken, last, mt, rt, sess, cat, grp, acct, svc, dates, enr>>

NextExtract ==
    \/ \E line \in ReceiptLines : ReadLine(line)
    \/ \E summary_amounts \in SummaryAmounts : Extract(summary_amounts)

SpecExtract == InitExtract /\ [][NextExtract]_vars

(* Claims about item extraction.                                           *)

\* C11: no element of the returned items is derived from a TOTAL, SUBTOTAL,
\* TAX (HST/GST/PST) or payment line: neither the line that gave an item's
\* price nor the line that gave its description is a summary line.
C11_NoSummaryLineAsItem ==
    ocr.pc = "extracted" =>
        \A k \in 1..Len(ocr.items) :
            /\ ~looks_like_summary_line(ocr.lines[ocr.items[k].price_line])
            /\ ~looks_like_summary_line(ocr.lines[ocr.items[k].desc_line])

\* The lines of the item section: those before the TOTAL line, or all of
\* them on a receipt without one
ItemSection(lines) ==
    {i \in 1..Len(lines) : total_line_idx(lines) = 0 \/ i < total_line_idx(lines)}

\* A line of the item section on which the extraction finds a price that is
\* neither a summary or payment amount nor part of a quantity expression
IsPricedItemLine(line, summary_amounts) ==
    /\ ~SkipLine(line)
    /\ Search(PriceAtEnd, line)
    /\ ~looks_like_summary_line(line)
    /\ ~HasTotalWord(Upper(line))
    /\ ~looks_like_quantity_expression(line)
    /\ LinePrice(line) > 0
    /\ LinePrice(line) \notin summary_amounts

\* C12: no priced line of the item section is lost silently: a price found
\* there that is neither a summary or payment amount nor turned into an item
\* has a warning in the result.
C12_LostPriceIsWarned ==
    ocr.pc = "extracted" =>
        \A i \in ItemSection(ocr.lines) :
            IsPricedItemLine(ocr.lines[i], ocr.summary_amounts) =>
                \/ \E k \in 1..Len(ocr.items) : ocr.items[k].price_line = i
                \/ \E k \in 1..Len(ocr.warnings) : ocr.warnings[k].price_line = i

\* The unit price written after the "@" of a modifier line, in cents; -1
\* when the line has none
RateAfterAt(raw_line) ==
    LET starts == {k \in (Find(raw_line, "@") + 1)..Len(raw_line) :
                       Find(raw_line, "@") # 0 /\ Ends(Money, raw_line, {k}) # {}}
    IN IF starts = {} THEN -1
       ELSE LET k == CHOOSE k \in starts : \A j \in starts : k <= j
            IN Cents(SubSeq(raw_line, k, GreedyEnd(Money, raw_line, k) - 1))

\* The modifier and the price agree within $0.02: count times unit price,
\* the price of the deal, or weight times the price of a pound
Reconciles(modifier, price) ==
    CASE modifier.pattern_type = "count_at_price" ->
            Abs(modifier.quantity * modifier.unit_price - price) <= 2
      [] modifier.pattern_type = "multi_for_price" ->
            Abs(modifier.deal_price - price) <= 2
      [] modifier.pattern_type = "weight_at_price" ->
            /\ Match(Then(<<Bol, Money, Eol>>), modifier.weight)
            /\ RateAfterAt(modifier.raw_line) >= 0
            /\ Abs(Cents(modifier.weight) * RateAfterAt(modifier.raw_line) - 100 * price) <= 200
      [] OTHER -> FALSE

\* C14: a modifier met during the backward search sets the quantity of the
\* item only if it reconciles with the matched price within $0.02; otherwise
\* the quantity stays 1 and the raw text of the modifier is appended to the
\* description. The lines "MILK", "3 @ $1.99", "5.97" give one item MILK of
\* price 5.97 and quantity 3.
C14_ModifierTrustedOnlyIfReconciled ==
    ocr.pc = "extracted" =>
        /\ \A k \in 1..Len(ocr.items) :
              ~ocr.items[k].modifier.none =>
                 /\ ocr.items[k].quantity # 1 =>
                        Reconciles(ocr.items[k].modifier, ocr.items[k].price)
                 /\ ~Reconciles(ocr.items[k].modifier, ocr.items[k].price) =>
                        /\ ocr.items[k].quantity = 1
                        /\ ocr.items[k].description # ocr.items[k].found_desc
                        /\ Contains(ocr.items[k].description, ocr.items[k].modifier.raw_line)
        /\ ocr.lines = <<"MILK", "3 @ $1.99", "5.97">> =>
              /\ Len(ocr.items) = 1
              /\ ocr.items[1].description = "MILK"
              /\ ocr.items[1].price = 597
              /\ ocr.items[1].quantity = 3

----------------------------------------------------------------------------
(* LedgerReader.open_accounts (src/ledger_reader/reader.py).               *)

\* The accounts of the ledger, in the order sorted() gives them.
LedgerAccounts ==
    << "Liabilities:CreditCard:CardA", "Liabilities:CreditCard:CardB" >>

AccountPatterns ==
    { <<>>, <<"Liabilities:CreditCard:*">>,
      <<"Assets:*", "Liabilities:CreditCard:CardB">> }

DirectiveDates == {[y |-> yy, m |-> 1, d |-> 1] : yy \in 2020..2023}

AsOfDates == {[y |-> 2020, m |-> 6, d |-> 1], [y |-> 2021, m |-> 6, d |-> 1],
              [y |-> 2023, m |-> 1, d |-> 1]}

MaxDirectives == 4

\* fnmatch.fnmatch(account, pattern) for the patterns in use: literal text
\* with at most one "*", at the end.
fnmatch(account, pattern) ==
    IF pattern # "" /\ Ch(pattern, Len(pattern)) = "*"
    THEN StartsWith(account, SubSeq(pattern, 1, Len(pattern) - 1))
    ELSE account = pattern

\* beancount's load_file returns the entries sorted by date, then by the kind
\* of directive (open first, close last), then by line.
LoadDirectives(file) ==
    LET n == Len(file)
        rank(k) == IF file[k].kind = "open" THEN 0 ELSE 1
        before(j, k) ==
            \/ toordinal(file[j].date) < toordinal(file[k].date)
            \/ file[j].date = file[k].date /\ rank(j) < rank(k)
            \/ file[j].date = file[k].date /\ rank(j) = rank(k) /\ j < k
    IN [r \in 1..n |->
          file[CHOOSE k \in 1..n : Cardinality({j \in 1..n : before(j, k)}) + 1 = r]]

\* The loop of lines 83-87: the date of the last entry of the kind for the
\* account, in the order of the loaded entries; NoneDate when there is none.
LastOf(entries, kind, account) ==
    LET hits == {k \in 1..Len(entries) :
                    entries[k].kind = kind /\ entries[k].account = account}
    IN IF hits = {} THEN NoneDate
       ELSE Some(entries[CHOOSE k \in hits : \A j \in hits : j <= k].date)

\* is_open(account), lines 89-94
is_open(entries, account, as_of) ==
    LET opened == LastOf(entries, "open", account)
        closed == LastOf(entries, "close", account)
    IN IF opened.none \/ toordinal(opened.v) > toordinal(as_of) THEN FALSE
       ELSE closed.none \/ toordinal(closed.v) > toordinal(as_of)

\* open_accounts(patterns, as_of=as_of), lines 64-105, on the loaded entries
open_accounts(entries, patterns, as_of) ==
    IF patterns = <<>> THEN <<>>
    ELSE SelectSeq(LedgerAccounts,
                   LAMBDA account :
                      /\ ~LastOf(entries, "open", account).none
                      /\ is_open(entries, account, as_of)
                      /\ \E k \in 1..Len(patterns) : fnmatch(account, patterns[k]))

InitAccounts ==
    /\ acct = [pc |-> "ledger", file |-> <<>>, patterns |-> <<>>,
               as_of |-> [y |-> 2020, m |-> 6, d |-> 1], result |-> <<>>]
    /\ statement = <<>>
    /\ enriched = [p \in Paths |-> NoFile]
    /\ ledgerBroken = FALSE
    /\ last = NoCall
    /\ enr = [pc |-> "idle"]
    /\ mt = [pc |-> "idle"]
    /\ rt = [pc |-> "idle"]
    /\ sess = [pc |-> "idle"]
    /\ cat = [pc |-> "idle"]
    /\ ocr = [pc |-> "idle"]
    /\ grp = [pc |-> "idle"]
    /\ svc = [pc |-> "idle"]
    /\ dates = [pc |-> "idle"]

\* The bookkeeper adds a directive to the ledger file: an account is opened,
\* closed, opened again, ..., each directive dated after the account's last.
WriteDirective(kind, account, date) ==
    LET own == SelectSeq(acct.file, LAMBDA e : e.account = account)
    IN /\ Len(acct.file) < MaxDirectives
       /\ IF own = <<>> THEN kind = "open"
          ELSE /\ kind # own[Len(own)].kind
               /\ toordinal(date) > toordinal(own[Len(own)].date)
       /\ acct' = [acct EXCEPT !.pc = "ledger", !.result = <<>>,
                               !.file = Append(@, [kind |-> kind, account |-> account,
                                                   date |-> date])]
       /\ UNCHANGED <<statement, enriched, ledgerBroken, last, mt, rt, sess, cat, ocr, grp,
                      svc, dates, enr>>

OpenAccounts(patterns, as_of) ==
    /\ acct' = [acct EXCEPT !.pc = "queried", !.patterns = patterns, !.as_of = as_of,
                            !.result = open_accounts(LoadDirectives(acct.file), patterns, as_of)]
    /\ UNCHANGED <<statement, enriched, ledgerBroken, last, mt, rt, sess, cat, ocr, grp,
                   svc, dates, enr>>

NextAccounts ==
    \/ \E kind \in {"open", "close"}, k \in 1..Len(LedgerAccounts), date \in DirectiveDates :
          WriteDirective(kind, LedgerAccounts[k], date)
    \/ \E patterns \in AccountPatterns, as_of \in AsOfDates : OpenAccounts(patterns, as_of)

SpecAccounts == InitAccounts /\ [][NextAccounts]_vars

\* The kind of the account's most recent directive dated on or before as_of,
\* "none" when it has no such directive.
MostRecentKind(file, account, as_of) ==
    LET hits == {k \in 1..Len(file) :
                    /\ file[k].account = account
                    /\ toordinal(file[k].date) <= toordinal(as_of)}
    IN IF hits = {} THEN "none"
       ELSE file[CHOOSE k \in hits :
                    \A j \in hits : toordinal(file[j].date) <= toordinal(file[k].date)].kind

InResult(account) == \E k \in 1..Len(acct.result) : acct.result[k] = account

\* C23: open_accounts(as_of = D) lists an account that matches a pattern
\* exactly when the most recent open or close directive of the account dated
\* on or before D is an open.
C23_ListedIffLastDirectiveIsOpen ==
    acct.pc = "queried" =>
        \A k \in 1..Len(LedgerAccounts) :
            InResult(LedgerAccounts[k])
                <=> /\ \E j \in 1..Len(acct.patterns) :
                          fnmatch(LedgerAccounts[k], acct.patterns[j])
                    /\ MostRecentKind(acct.file, LedgerAccounts[k], acct.as_of) = "open"

\* The case of test_open_accounts_handles_reopened_accounts: CardA opened,
\* closed and opened again, CardB opened and closed, all before the query.
ReopenedLedger ==
    /\ acct.pc = "queried"
    /\ acct.as_of = [y |-> 2023, m |-> 1, d |-> 1]
    /\ acct.patterns = <<"Liabilities:CreditCard:*">>
    /\ MostRecentKind(acct.file, LedgerAccounts[1], acct.as_of) = "open"
    /\ \E k \in 1..Len(acct.file) : acct.file[k].account = LedgerAccounts[1] /\ acct.file[k].kind = "close"

----------------------------------------------------------------------------
(* The OCR call of a scan (src/runtime/receipt_pipeline.py,                *)
(* src/application/receipts/scan.py).                                      *)

ReceiptImages == {"r1.jpg", "r2.jpg", "missing.jpg"}

ExistingImages == {"r1.jpg", "r2.jpg"}

OcrUrls == {"http://localhost:8001", "http://localhost:8001/", "http://ocr:8001//"}

\* What httpx.post can raise while the request is under way.
TransportFailures == {"ConnectError", "ConnectTimeout", "ReadTimeout", "RemoteProtocolError"}

StatusCodes == {200, 404, 500, 503}

\* The body of a response: the JSON of a result, JSON without the image
\* size, or text that is not JSON.
ResponseBodies == {"result", "no_image_width", "not_json"}

\* ocr_url.rstrip("/")
RECURSIVE RStripSlash(_)
RStripSlash(s) ==
    IF s # "" /\ Ch(s, Len(s)) = "/" THEN RStripSlash(SubSeq(s, 1, Len(s) - 1)) ELSE s

\* A transport failure that is no RequestError for the except clause.
is_request_error_but_read_timeout(exc) ==
    exc \in {"ConnectError", "ConnectTimeout", "RemoteProtocolError"}

\* `except httpx.RequestError` (line 56): the exceptions of httpx.post it catches.
is_request_error(exc) ==
    exc \in {"ConnectError", "ConnectTimeout", "ReadTimeout", "RemoteProtocolError"}

\* call_ocr_service lines 46-54 on a response: what the call raises, "" when
\* it returns the results.
RaisedOnResponse(status_code, body) ==
    IF status_code # 200 THEN "OCRServiceUnavailable"
    ELSE IF body = "not_json" THEN "JSONDecodeError"
    ELSE IF body = "no_image_width" THEN "KeyError"
    ELSE ""

\* call_ocr_service lines 56-58 on an exception of httpx.post
RaisedOnFailure(exc) ==
    IF is_request_error(exc) THEN "OCRServiceUnavailable" ELSE exc

\* run_receipt_scan lines 62-68: the status of the scan after the call raised
\* `raised`; any exception but OCRServiceUnavailable leaves the function.
ScanStatus(raised) ==
    IF raised = "OCRServiceUnavailable" THEN "ocr_unavailable"
    ELSE IF raised = "" THEN "ocr_done"
    ELSE "raised"

MaxScans == 3

\* A scan before its call; scans and posted count the scans run on an
\* existing image and the requests sent since the start.
NoScan == [pc |-> "ready", image |-> "", url |-> "", requests |-> 0, failure |-> "",
           status_code |-> 0, body |-> "", raised |-> "", status |-> "",
           scans |-> 0, posted |-> 0]

InitScan ==
    /\ svc = NoScan
    /\ statement = <<>>
    /\ enriched = [p \in Paths |-> NoFile]
    /\ ledgerBroken = FALSE
    /\ last = NoCall
    /\ enr = [pc |-> "idle"]
    /\ mt = [pc |-> "idle"]
    /\ rt = [pc |-> "idle"]
    /\ sess = [pc |-> "idle"]
    /\ cat = [pc |-> "idle"]
    /\ ocr = [pc |-> "idle"]
    /\ grp = [pc |-> "idle"]
    /\ acct = [pc |-> "idle"]
    /\ dates = [pc |-> "idle"]

\* run_receipt_scan up to httpx.post (scan.py 56-63, receipt_pipeline.py
\* 30-42): a missing image ends the scan, otherwise the request is sent.
RunReceiptScan(image, ocr_url) ==
    /\ svc.pc \in {"ready", "done"}
    /\ svc.scans < MaxScans
    /\ svc' = IF image \notin ExistingImages
              THEN [NoScan EXCEPT !.pc = "done", !.image = image, !.status = "file_not_found",
                                  !.scans = svc.scans, !.posted = svc.posted]
              ELSE [NoScan EXCEPT !.pc = "sent", !.image = image,
                                  !.url = RStripSlash(ocr_url) \o "/ocr",
                                  !.requests = 1,
                                  !.scans = svc.scans + 1, !.posted = svc.posted + 1]
    /\ UNCHANGED <<statement, enriched, ledgerBroken, last, mt, rt, sess, cat, ocr, grp,
                   acct, dates, enr>>

\* httpx.post raises: the service is not reached, or no answer comes within
\* the timeout.
PostFails(exc) ==
    /\ svc.pc = "sent"
    /\ svc' = [svc EXCEPT !.pc = "done", !.failure = exc,
                          !.raised = RaisedOnFailure(exc),
                          !.status = ScanStatus(RaisedOnFailure(exc))]
    /\ UNCHANGED <<statement, enriched, ledgerBroken, last, mt, rt, sess, cat, ocr, grp,
                   acct, dates, enr>>

\* httpx.post returns a response.
PostReturns(status_code, body) ==
    /\ svc.pc = "sent"
    /\ svc' = [svc EXCEPT !.pc = "done", !.status_code = status_code, !.body = body,
                          !.raised = RaisedOnResponse(status_code, body),
                          !.status = ScanStatus(RaisedOnResponse(status_code, body))]
    /\ UNCHANGED <<statement, enriched, ledgerBroken, last, mt, rt, sess, cat, ocr, grp,
                   acct, dates, enr>>

NextScan ==
    \/ \E image \in ReceiptImages, ocr_url \in OcrUrls : RunReceiptScan(image, ocr_url)
    \/ \E exc \in TransportFailures : PostFails(exc)
    \/ \E status_code \in StatusCodes, body \in ResponseBodies : PostReturns(status_code, body)

SpecScan == InitScan /\ [][NextScan]_vars

\* The OCR call of the scan failed: the service was not reached, did not
\* answer in time, or answered with an error status.
OcrCallFailed ==
    /\ svc.pc = "done"
    /\ \/ svc.failure \in TransportFailures
       \/ svc.status_code \notin {0, 200}

\* C24: a scan whose OCR call failed (service unreachable, timeout, error
\* response) ends with OCRServiceUnavailable, reported as ocr_unavailable, and
\* every scan sends at most one request: exactly one when the image exists,
\* whatever the outcome of the call.
C24_FailureIsUnavailableAndSentOnce ==
    /\ OcrCallFailed => /\ svc.raised = "OCRServiceUnavailable"
                        /\ svc.status = "ocr_unavailable"
    /\ svc.requests <= 1
    /\ svc.pc = "done" /\ svc.image \in ExistingImages => svc.requests = 1
    /\ svc.pc = "done" /\ svc.status = "ocr_unavailable" => OcrCallFailed
    /\ svc.posted = svc.scans

C24_TimedOutOnce ==
    /\ svc.pc = "done"
    /\ svc.failure = "ReadTimeout"
    /\ svc.status = "ocr_unavailable"
    /\ svc.requests = 1
    /\ svc.scans = 2

----------------------------------------------------------------------------
(* _extract_date (src/receipt/ocr_parser/fields_parser.py).  The patterns  *)
(* are searched with re.IGNORECASE: they are written in upper case and     *)
(* matched against the upper-cased text.                                   *)

DateSep == Chars("/-")                                         \* [/-]
IsoSep == Chars("./-")                                         \* [./-]

MonthNames == <<"JAN", "FEB", "MAR", "APR", "MAY", "JUN",
                "JUL", "AUG", "SEP", "OCT", "NOV", "DEC">>

MonthName == Alt([k \in 1..12 |-> Lit(MonthNames[k])])

\* The patterns in the order of the list (lines 109-120), each with the
\* pieces that follow its first group.
\* r"(\d{1,2})[/-](\d{1,2})[/-](\d{2})"
SlashShortYear == Then(<<Rep(D, 1, 2), DateSep, Rep(D, 1, 2), DateSep, Rep(D, 2, 2)>>)
\* r"(\d{1,2})[/-](\d{1,2})[/-](\d{4})"
SlashLongYear == Then(<<Rep(D, 1, 2), DateSep, Rep(D, 1, 2), DateSep, Rep(D, 4, 4)>>)
\* r"(\d{4})[./-](\d{2})[./-](\d{2})"
IsoDate == Then(<<Rep(D, 4, 4), IsoSep, Rep(D, 2, 2), IsoSep, Rep(D, 2, 2)>>)
\* r"\b(\d{4})(\d{2})(\d{2})\b"
CompactDate == Then(<<Wb, Rep(D, 8, 8), Wb>>)
\* r"(Jan|Feb|...|Dec)\w*\s+(\d{1,2}),?\s+(\d{4})"
MonthNameDate ==
    Then(<<MonthName, Star(W), Plus(Ws), Rep(D, 1, 2), Opt(Lit(",")), Plus(Ws), Rep(D, 4, 4)>>)

\* match.groups() of a slash pattern found at place i; the year has n digits
SlashGroups(s, i, n) ==
    LET e1 == GroupEnd(Rep(D, 1, 2),
                       Then(<<DateSep, Rep(D, 1, 2), DateSep, Rep(D, n, n)>>), s, i)
        e2 == GroupEnd(Rep(D, 1, 2), Then(<<DateSep, Rep(D, n, n)>>), s, e1 + 1)
    IN <<SubSeq(s, i, e1 - 1), SubSeq(s, e1 + 1, e2 - 1), SubSeq(s, e2 + 1, e2 + n)>>

\* match.groups() of the month-name pattern found at place i
MonthGroups(s, i) ==
    LET e1 == GroupEnd(Star(W),
                       Then(<<Plus(Ws), Rep(D, 1, 2), Opt(Lit(",")), Plus(Ws), Rep(D, 4, 4)>>),
                       s, i + 3)
        e2 == GroupEnd(Plus(Ws), Then(<<Rep(D, 1, 2), Opt(Lit(",")), Plus(Ws), Rep(D, 4, 4)>>),
                       s, e1)
        e3 == GroupEnd(Rep(D, 1, 2), Then(<<Opt(Lit(",")), Plus(Ws), Rep(D, 4, 4)>>), s, e2)
        e4 == GroupEnd(Opt(Lit(",")), Then(<<Plus(Ws), Rep(D, 4, 4)>>), s, e3)
        e5 == GroupEnd(Plus(Ws), Rep(D, 4, 4), s, e4)
    IN <<SubSeq(s, i, i + 2), SubSeq(s, e2, e3 - 1), SubSeq(s, e5, e5 + 3)>>

\* date(year, month, day): NoneDate where the constructor raises ValueError
MakeDate(year, month, day) ==
    IF /\ year \in 1..9999
       /\ month \in 1..12
       /\ day >= 1
       /\ day <= DaysInMonth(year, month)
    THEN Some([y |-> year, m |-> month, d |-> day])
    ELSE NoneDate

\* Lines 147-154: month first, and a year below 100 moved to a century
SlashDate(groups) ==
    MakeDate(IF StrToInt(groups[3]) < 100
             THEN (IF StrToInt(groups[3]) <= 69 THEN 2000 + StrToInt(groups[3])
                   ELSE 1900 + StrToInt(groups[3]))
             ELSE StrToInt(groups[3]),
             StrToInt(groups[1]), StrToInt(groups[2]))

\* The date of the first match of pattern k in the upper-cased text, NoneDate
\* when the pattern has no match or its first match is no date (lines 122-159)
DateOfPattern(k, s) ==
    LET re == <<SlashShortYear, SlashLongYear, IsoDate, CompactDate, MonthNameDate>>[k]
        i == SearchStart(re, s)
    IN IF i = 0 THEN NoneDate
       ELSE IF k = 1 THEN SlashDate(SlashGroups(s, i, 2))
       ELSE IF k = 2 THEN SlashDate(SlashGroups(s, i, 4))
       ELSE IF k = 3
            THEN MakeDate(StrToInt(SubSeq(s, i, i + 3)), StrToInt(SubSeq(s, i + 5, i + 6)),
                          StrToInt(SubSeq(s, i + 8, i + 9)))
       ELSE IF k = 4
            THEN MakeDate(StrToInt(SubSeq(s, i, i + 3)), StrToInt(SubSeq(s, i + 4, i + 5)),
                          StrToInt(SubSeq(s, i + 6, i + 7)))
       ELSE LET groups == MonthGroups(s, i)
            IN MakeDate(StrToInt(groups[3]),
                        CHOOSE m \in 1..12 : MonthNames[m] = groups[1],
                        StrToInt(groups[2]))

\* _extract_date(lines, full_text): the first pattern of the list whose first
\* match is a date decides.
RECURSIVE FirstDate(_, _)
FirstDate(k, s) ==
    IF k > 5 THEN NoneDate
    ELSE IF ~DateOfPattern(k, s).none THEN DateOfPattern(k, s)
    ELSE FirstDate(k + 1, s)

extract_date(full_text) == FirstDate(1, Upper(full_text))

\* The lines of the transcripts: what is printed, the format it is printed
\* in, and the year, month and day as the digits of the line give them.
TranscriptLines ==
    { [text |-> "COSTCO #123", fmt |-> "none", y |-> 0, m |-> 0, d |-> 0],
      [text |-> "TOTAL 6.75", fmt |-> "none", y |-> 0, m |-> 0, d |-> 0],
      [text |-> "2025-01-10", fmt |-> "iso", y |-> 2025, m |-> 1, d |-> 10],
      [text |-> "01/10/25", fmt |-> "slash", y |-> 25, m |-> 1, d |-> 10],
      [text |-> "12/31/70", fmt |-> "slash", y |-> 70, m |-> 12, d |-> 31],
      [text |-> "01/10/2025 12:30", fmt |-> "slash", y |-> 2025, m |-> 1, d |-> 10],
      [text |-> "20250110", fmt |-> "compact", y |-> 2025, m |-> 1, d |-> 10],
      [text |-> "January 10, 2025", fmt |-> "month", y |-> 2025, m |-> 1, d |-> 10] }

MaxDateLines == 3

InitDates ==
    /\ dates = [pc |-> "reading", lines |-> <<>>, date |-> NoneDate]
    /\ statement = <<>>
    /\ enriched = [p \in Paths |-> NoFile]
    /\ ledgerBroken = FALSE
    /\ last = NoCall
    /\ enr = [pc |-> "idle"]
    /\ mt = [pc |-> "idle"]
    /\ rt = [pc |-> "idle"]
    /\ sess = [pc |-> "idle"]
    /\ cat = [pc |-> "idle"]
    /\ ocr = [pc |-> "idle"]
    /\ grp = [pc |-> "idle"]
    /\ acct = [pc |-> "idle"]
    /\ svc = [pc |-> "idle"]

\* One more line of the transcript
ReadDateLine(line) ==
    /\ dates.pc = "reading"
    /\ Len(dates.lines) < MaxDateLines
    /\ dates' = [dates EXCEPT !.lines = Append(@, line)]
    /\ UNCHANGED <<statement, enriched, ledgerBroken, last, mt, rt, sess, cat, ocr, grp,
                   acct, svc, enr>>

\* _extract_date(lines, full_text) with full_text = "\n".join(lines)
ExtractDate ==
    /\ dates.pc = "reading"
    /\ dates' = [dates EXCEPT !.pc = "extracted",
                              !.date = extract_date(JoinNL([k \in 1..Len(dates.lines) |->
                                                               dates.lines[k].text]))]
    /\ UNCHANGED <<statement, enriched, ledgerBroken, last, mt, rt, sess, cat, ocr, grp,
                   acct, svc, enr>>

NextDates ==
    \/ \E line \in TranscriptLines : ReadDateLine(line)
    \/ ExtractDate

SpecDates == InitDates /\ [][NextDates]_vars

\* The date a line gives: the year as written when it has four digits, a
\* two-digit year yy as 2000+yy up to 69 and 1900+yy from 70.
WrittenDate(line) ==
    [y |-> IF line.y >= 100 THEN line.y
           ELSE IF line.y <= 69 THEN 2000 + line.y ELSE 1900 + line.y,
     m |-> line.m, d |-> line.d]

\* C25: from a transcript with one dated line, date extraction returns the
\* date written on that line: the year as written when it has four digits, a
\* two-digit year yy as 2000+yy when yy <= 69 and as 1900+yy when yy >= 70.
C25_ExtractedDateIsTheWrittenOne ==
    dates.pc = "extracted" =>
        \A k \in 1..Len(dates.lines) :
            /\ dates.lines[k].fmt # "none"
            /\ \A j \in 1..Len(dates.lines) : j # k => dates.lines[j].fmt = "none"
            => dates.date = Some(WrittenDate(dates.lines[k]))

----------------------------------------------------------------------------
(* The enrichment of one matched transaction: the matcher's comparison     *)
(* (receipt/matcher.py), the guard of cmd_match and the enriched           *)
(* transaction (receipt/formatter.py), on a receipt and a statement file   *)
(* with one card transaction.                                              *)

\* The card transaction as the statement file holds it: a plain charge, a
\* charge with a rewards redemption after it, a purchase split over two
\* cards.
EnrichStatements ==
    { Charge("COSTCO WHOLESALE #123", "Expenses:Food", "50.00"),
      <<"2025-01-10 * \"COSTCO WHOLESALE #123\" \"\"\n",
        "  Liabilities:CardA -50.00 CAD\n",
        "  Assets:Rewards -5.00 CAD\n",
        "  Expenses:Food 55.00 CAD\n">>,
      <<"2025-01-10 * \"COSTCO WHOLESALE #123\" \"\"\n",
        "  Liabilities:CardA -50.00 CAD\n",
        "  Liabilities:CardB -50.00 CAD\n",
        "  Expenses:Food 100.00 CAD\n">> }

\* The price of the second item of the receipt: with the first item (8.00)
\* and the tax the itemized total is far below the charge, one cent below,
\* equal, one cent above, two cents above.
SecondItemPrices == {300, 4199, 4200, 4201, 4202, 4134, 4135, 4136}

ReceiptTaxes == {NoneDec, Some(0), Some(65)}

EnrichReceipt(price, tax) ==
    [SessionReceipt("COSTCO", 5000,
                    <<Item("BANANA", 800, 2, Some("Expenses:Food:Produce")),
                      Item("BREAD", price, 1, NoneStr)>>)
     EXCEPT !.tax = tax]

EnrichName == "2025-01-10_costco_50_00.beancount"

\* The first posting with a negative number, 0 when there is none: the
\* posting _try_match compares with the receipt total (matcher.py 238-243).
MatcherPosting(txn) ==
    LET negative == {i \in 1..Len(txn.postings) :
                        txn.postings[i].has_units /\ txn.postings[i].number < 0}
    IN IF negative = {} THEN 0 ELSE CHOOSE i \in negative : \A j \in negative : i <= j

\* The posting transaction_charge_amount returns the amount of
\* (domain/match.py 42-44)
GuardPosting(txn) ==
    LET negative == {i \in 1..Len(txn.postings) :
                        txn.postings[i].has_units /\ txn.postings[i].number < 0}
    IN IF negative = {} THEN 0 ELSE CHOOSE i \in negative : \A j \in negative : i <= j

\* The posting format_enriched_transaction keeps as cc_account and cc_amount:
\* the loop of formatter.py 366-372 assigns them for every negative posting
\* and does not stop at the first.
FormatterPosting(txn) ==
    LET negative == {i \in 1..Len(txn.postings) :
                        txn.postings[i].has_units /\ txn.postings[i].number < 0}
    IN IF negative = {} THEN 0 ELSE MaxOf(negative)

InitEnrich ==
    /\ \E lines \in EnrichStatements, price \in SecondItemPrices, tax \in ReceiptTaxes :
          enr = [pc |-> "approved", fs |-> StatementPath :> lines,
                 receipt |-> EnrichReceipt(price, tax),
                 matches |-> <<>>, matcher_posting |-> 0, guard_posting |-> 0,
                 cc_posting |-> 0, delta |-> 0, lines |-> <<>>, report |-> ""]
    /\ statement = <<>>
    /\ enriched = [p \in Paths |-> NoFile]
    /\ ledgerBroken = FALSE
    /\ last = NoCall
    /\ mt = [pc |-> "idle"]
    /\ rt = [pc |-> "idle"]
    /\ sess = [pc |-> "idle"]
    /\ cat = [pc |-> "idle"]
    /\ ocr = [pc |-> "idle"]
    /\ grp = [pc |-> "idle"]
    /\ acct = [pc |-> "idle"]
    /\ svc = [pc |-> "idle"]
    /\ dates = [pc |-> "idle"]

\* match_receipt_to_transactions(receipt, transactions), cmd_match line 174
MatchReceipt ==
    /\ enr.pc = "approved"
    /\ \E matches \in {match_receipt_to_transactions(enr.receipt, load(enr.fs).entries)} :
          enr' = [enr EXCEPT
                    !.pc = IF matches = <<>> THEN "no_match" ELSE "matched",
                    !.matches = matches,
                    !.matcher_posting =
                        IF matches = <<>> THEN 0 ELSE MatcherPosting(matches[1].transaction)]
    /\ UNCHANGED <<statement, enriched, ledgerBroken, last, mt, rt, sess, cat, ocr, grp,
                   acct, svc, dates>>

\* The guard of cmd_match lines 246-257 on the first candidate
GuardItemized ==
    /\ enr.pc = "matched"
    /\ \E expected_total \in {transaction_charge_amount(enr.matches[1])} :
          enr' = [enr EXCEPT
                    !.guard_posting = GuardPosting(enr.matches[1].transaction),
                    !.delta = expected_total.v - itemized_receipt_total(enr.receipt),
                    !.pc = IF /\ ~expected_total.none
                              /\ expected_total.v - itemized_receipt_total(enr.receipt) < -1
                           THEN "rejected" ELSE "guarded",
                    !.report = IF /\ ~expected_total.none
                                  /\ expected_total.v - itemized_receipt_total(enr.receipt) < -1
                               THEN "Failed to apply match: itemized receipt total exceeds card transaction"
                               ELSE ""]
    /\ UNCHANGED <<statement, enriched, ledgerBroken, last, mt, rt, sess, cat, ocr, grp,
                   acct, svc, dates>>

\* format_enriched_transaction(receipt, selected_match), cmd_match line 259
FormatEnriched ==
    /\ enr.pc = "guarded"
    /\ enr' = [enr EXCEPT
                 !.pc = "formatted",
                 !.cc_posting = FormatterPosting(enr.matches[1].transaction),
                 !.lines = format_enriched_transaction(enr.receipt, enr.matches[1])]
    /\ UNCHANGED <<statement, enriched, ledgerBroken, last, mt, rt, sess, cat, ocr, grp,
                   acct, svc, dates>>

\* apply_receipt_match with the enriched content (cmd_match lines 260-291)
ApplyFormatted ==
    /\ enr.pc = "formatted"
    /\ \E r \in {ApplyEnriched(enr.fs, enr.matches[1],
                               "_enriched/" \o Stem(EnrichName) \o "-enriched.beancount",
                               EnrichName, JoinNL(enr.lines), "none")} :
          enr' = [enr EXCEPT
                    !.pc = IF r.status = "raised" THEN "failed" ELSE "applied",
                    !.report = IF r.status = "raised"
                               THEN "Failed to apply match: " \o r.error
                               ELSE MatchedMessage(r.status),
                    !.fs = IF r.enriched.exists
                           THEN ("records/_enriched/" \o Stem(EnrichName) \o "-enriched.beancount"
                                    :> SplitLinesKeep(r.enriched.text))
                                @@ (StatementPath :> r.statement)
                           ELSE StatementPath :> r.statement]
    /\ UNCHANGED <<statement, enriched, ledgerBroken, last, mt, rt, sess, cat, ocr, grp,
                   acct, svc, dates>>

NextEnrich ==
    \/ MatchReceipt
    \/ GuardItemized
    \/ FormatEnriched
    \/ ApplyFormatted

SpecEnrich == InitEnrich /\ [][NextEnrich]_vars

\* The enriched transaction among the lines the formatter returned.
EnrichedTransaction(lines) ==
    LoadTransaction("enriched", [k \in 1..Len(lines) |-> lines[k] \o "\n"],
                    CHOOSE i \in 1..Len(lines) : IsTxnStart(lines[i]))

\* C28: the posting the matcher compared with the receipt total, the posting
\* the guard took the charge from and the posting kept as the card leg of the
\* enriched transaction are the same posting of the matched transaction.
C28_OneChargePosting ==
    enr.pc \in {"formatted", "applied", "failed"} =>
        /\ enr.matcher_posting = enr.guard_posting
        /\ enr.guard_posting = enr.cc_posting
        /\ \E txn \in {EnrichedTransaction(enr.lines)} :
              /\ txn.postings[1].account
                    = enr.matches[1].transaction.postings[enr.matcher_posting].account
              /\ txn.postings[1].number
                    = enr.matches[1].transaction.postings[enr.matcher_posting].number

\* The sum of the postings after the card leg: items, tax, remainder.
RECURSIVE SumNumbers(_)
SumNumbers(postings) ==
    IF postings = <<>> THEN 0 ELSE Head(postings).number + SumNumbers(Tail(postings))

\* C29: the enriched transaction written for a match that passed the guard
\* balances: its item postings, tax posting and remaining/unitemized posting
\* add up to the absolute amount of its card leg.
C29_EnrichedTransactionBalances ==
    enr.pc \in {"formatted", "applied", "failed"} =>
        \E txn \in {EnrichedTransaction(enr.lines)} :
            SumNumbers(Tail(txn.postings)) = Abs(txn.postings[1].number)
====
